---- MODULE Spec2Model ----
(***************************************************************************)
(* Model of the crypto trading engine: the risk gate (RiskManager), the    *)
(* order lifecycle manager (OrderManager), the strategy.signal consumer of *)
(* the trading bot, and the candle aggregation of the market-data          *)
(* pipeline (MarketDataService), over a shared relational store.           *)
(*                                                                         *)
(* Every database statement, exchange call and goroutine start is one      *)
(* step; goroutines interleave between steps.  Money and quantities are    *)
(* integers (USD, coins).  A nullable column is a set: {} is NULL, {v} is  *)
(* the value v.                                                            *)
(***************************************************************************)
EXTENDS Integers, Sequences, FiniteSets, TLC

(***************************************************************************)
(* Bounds of the model                                                     *)
(***************************************************************************)
MaxSignals == 3
MaxTicks == 3
MaxClock == 1

(***************************************************************************)
(* Program constants                                                       *)
(***************************************************************************)
MaxPositionSizeUSD == 100
MaxOpenPositions == 1
MaxHoldTimeHours == 24
PercentScale == 10000
DailyLossLimitPercent == 2
StopLossPercent == 2
PortfolioValue == 10000

Bots == {"bot1", "bot2"}
\* the bot whose consumer receives signals when a single instance is subscribed
Consumers == {"bot1"}
Admin == "admin"
Threads == Bots \cup {Admin}

StrategyID == "mean-reversion"
Symbol == "BTC-USD"
\* a symbol the strategy is not configured for
OtherSymbol == "ETH-USD"
Symbols == {Symbol, OtherSymbol}

OrderStatusPending == "PENDING"
OrderStatusOpen == "OPEN"
OrderStatusFilled == "FILLED"
OrderStatusCancelled == "CANCELLED"
OrderStatusFailed == "FAILED"
OrderStatuses == {OrderStatusPending, OrderStatusOpen, OrderStatusFilled,
                  OrderStatusCancelled, OrderStatusFailed}

NULL == {}

NoSignal == [id |-> 0]

(***************************************************************************)
(* Inputs: the payloads put on the strategy.signal subject and the         *)
(* responses of the exchange.                                              *)
(***************************************************************************)
SignalInputs ==
    { [side |-> "BUY",  quantity |-> 1, stop_loss_price |-> 98, price |-> 100],
      [side |-> "BUY",  quantity |-> 1, stop_loss_price |-> 49, price |-> 50],
      [side |-> "SELL", quantity |-> 1, stop_loss_price |-> 98, price |-> 100] }

FillPrices == {100, 400}
FeeValues == {1}

\* exchange.PlaceOrder returns an error or an OrderResponse
ExchangeError == [err |-> TRUE, status |-> OrderStatusFailed,
                  average_fill_price |-> NULL, fees |-> 0]
ExchangeResponses ==
    { [err |-> FALSE, status |-> OrderStatusFilled,
       average_fill_price |-> {p}, fees |-> f] : p \in FillPrices, f \in FeeValues }
    \cup
    { [err |-> FALSE, status |-> OrderStatusOpen, average_fill_price |-> NULL, fees |-> 0] }

VARIABLES
    signalsSent,    \* number of strategy.signal events delivered so far
    orders,         \* table orders; the row id is the index
    trades,         \* table trades; the row id is the index
    system_config,  \* row 'kill_switch' of table system_config
    risk_events,    \* table risk_events: number of rows per event_type
    killSwitch,     \* RiskManager.killSwitch of each bot process
    ksRequested,    \* history: EnableKillSwitch was called and DisableKillSwitch not since
    pc,             \* position of each consumer callback / admin caller
    cur,            \* the signal a consumer callback is handling
    frame,          \* the EnableKillSwitch call in progress of a thread
    lastValidate,   \* history: the last ValidateTradeSignal that returned
    lastPlace,      \* history: the last PlaceOrder that returned
    exec,           \* the executeOrder goroutine of each order
    busEvents,      \* number of events published per subject
    closeSignals,   \* history: the strategy.signal events CheckOpenTrades has published
    received,       \* number of events the bus has handed to each instance, per subject
    clock,          \* time.Now() of the market-data process, in minutes
    ticksSent,      \* number of ticks the exchange connector has emitted
    inflight,       \* `go callback(update)` tasks that have not run yet
    buffers,        \* the CandleBuffer objects allocated so far; the index is the pointer
    candleBuffer,   \* MarketDataService.candleBuffer: symbol -> pointer (0: no entry)
    pendingSaves,   \* `go mds.saveCandle(ctx, buffer)` tasks: the pointers they hold
    flush,          \* the flushCandleBuffers call of the aggregation loop
    price_data,     \* table price_data, rows in insertion order
    writeCount,     \* history: successful writes per bucket, counted up to 2
    tickLog,        \* history: the ticks the connector has emitted, in emission order
    candleBufferMu, \* MarketDataService.candleBufferMu: the tick callbacks holding it
    priceSub,       \* the market.price.update subscription of each trading bot
    mrs,            \* the MeanReversionStrategy of each trading bot
    strategySignals, \* history: the strategy.signal events the strategies have published
    shutdown        \* the cancellation token, the WebSocket and the long-running loops

storeVars == <<orders, trades, system_config, risk_events>>
ksVars == <<killSwitch, ksRequested>>
botVars == <<ksVars, pc, cur, frame, lastValidate, lastPlace, exec>>
envVars == <<signalsSent, busEvents, closeSignals, received>>
stratVars == <<priceSub, mrs, strategySignals>>
loopVars == <<shutdown>>
mdVars == <<clock, ticksSent, inflight, buffers, candleBuffer, pendingSaves, flush,
            price_data, writeCount, tickLog, candleBufferMu, stratVars, loopVars>>
vars == <<storeVars, botVars, envVars, mdVars>>

RiskEventTypes == {"DAILY_LOSS_LIMIT", "MAX_POSITIONS", "POSITION_SIZE",
                   "STOP_LOSS_MISSING", "STOP_LOSS_TOO_WIDE", "KILL_SWITCH",
                   "MAX_HOLD_TIME"}
Subjects == {"strategy.signal", "market.price.update", "risk.violation", "risk.kill_switch.enabled", "risk.kill_switch.disabled",
             "order.placed", "order.failed", "order.filled",
             "trade.opened", "trade.closed"}

\* the subjects a trading-bot instance subscribes to
SubscribedSubjects == {"strategy.signal", "market.price.update", "risk.kill_switch"}

\* a subscription with no message pending and no callback running
NoSubscription == [active |-> FALSE, pending |-> <<>>, running |-> {}, handled |-> <<>>]

\* NewMeanReversionStrategy: an empty price history; loaded is the history that
\* LoadPriceHistory installed
NewMeanReversionStrategy == [priceHistory |-> <<>>, loaded |-> <<>>]

\* the loops started with a cancellation token: runCandleAggregation,
\* runGapDetection, the risk monitoring goroutine and listenWebSocket
TickerLoops == {"flush", "gaps", "risk"}
Loops == TickerLoops \cup {"ws"}

\* every loop is at its select, no ticker has fired, the token is not cancelled;
\* after counts the iterations a loop began after the cancellation
Running ==
    [cancelled |-> FALSE, wsClosed |-> FALSE,
     pc |-> [l \in Loops |-> "select"],
     ticker |-> [l \in TickerLoops |-> FALSE],
     after |-> [l \in Loops |-> 0]]

NoCandle == [StartTime |-> -1]
ExchangeName == "paper"

\* the id the exchange assigns to an order it accepted
ExchangeOrderID == "exchange-order-id"

\* executeOrder before exchange.PlaceOrder has returned
NoResponse == [err |-> FALSE, status |-> "none", exchange_order_id |-> "",
               filled_quantity |-> 0, average_fill_price |-> NULL, fees |-> 0]

NoFrame == [rm |-> "none", ret |-> "none", before |-> <<>>, result |-> "none"]
NoResult == [bot |-> "none", result |-> "none", kind |-> "none"]
NoPlace == [bot |-> "none", result |-> "none"]

Init ==
    /\ signalsSent = 0
    /\ orders = <<>>
    /\ trades = <<>>
    /\ system_config = [enabled |-> FALSE]
    /\ risk_events = [t \in RiskEventTypes |-> 0]
    /\ busEvents = [s \in Subjects |-> 0]
    /\ closeSignals = <<>>
    /\ received = [b \in Bots |-> [s \in SubscribedSubjects |-> 0]]
    /\ killSwitch = [b \in Bots |-> [enabled |-> FALSE]]
    /\ ksRequested = [b \in Bots |-> FALSE]
    /\ pc = [t \in Threads |-> "idle"]
    /\ cur = [b \in Bots |-> NoSignal]
    /\ frame = [t \in Threads |-> NoFrame]
    /\ lastValidate = NoResult
    /\ lastPlace = NoPlace
    /\ exec = <<>>
    /\ clock = 0
    /\ ticksSent = 0
    /\ inflight = {}
    /\ buffers = <<>>
    /\ candleBuffer = [s \in Symbols |-> 0]
    /\ pendingSaves = {}
    /\ flush = [pc |-> "idle", ptr |-> 0, snap |-> NoCandle]
    /\ price_data = <<>>
    /\ writeCount = [m \in 0..MaxClock |-> 0]
    /\ tickLog = <<>>
    /\ candleBufferMu = {}
    /\ priceSub = [b \in Bots |-> NoSubscription]
    /\ mrs = [b \in Bots |-> NewMeanReversionStrategy]
    /\ strategySignals = <<>>
    /\ shutdown = Running

(***************************************************************************)
(* Helpers                                                                 *)
(***************************************************************************)
\* a database statement whose error the code handles succeeds or fails
DbOutcomes == {TRUE, FALSE}

Publish(subject) == [busEvents EXCEPT ![subject] = @ + 1]

Abs(x) == IF x < 0 THEN -x ELSE x

\* fmt "%f" of the quantity and "%d" of the float64 price
FmtF(q) == <<q, "000000">>
FmtD(p) == <<"%!d(float64=", p, ")">>

\* the identifier derived from the signal's own id as well: no two signals share it
generateClientOrderIDPerSignal(signal) ==
    <<signal.id, signal.strategy_id, signal.symbol, signal.side,
      FmtF(signal.quantity), FmtD(signal.price)>>

generateClientOrderID(signal) ==
    <<signal.strategy_id, signal.symbol, signal.side,
      FmtF(signal.quantity), FmtD(signal.price)>>

RowsWithClientOrderID(cid) ==
    {i \in 1..Len(orders) : orders[i].client_order_id = cid}

RECURSIVE SumPnl(_)
SumPnl(ts) ==
    IF ts = <<>> THEN 0
    ELSE LET t == Head(ts)
             v == IF t.pnl = NULL THEN 0 ELSE CHOOSE x \in t.pnl : TRUE
         IN  v + SumPnl(Tail(ts))

OpenTradeIds(strategy) ==
    {i \in 1..Len(trades) : trades[i].strategy_id = strategy /\ trades[i].exit_time = NULL}

Statuses(os) == [i \in 1..Len(os) |-> os[i].status]

(***************************************************************************)
(* The event bus                                                           *)
(***************************************************************************)
\* a trading bot that subscribes to strategy.signal with Subscribe, outside any group
SignalSubscriptionPlain(b) == [subject |-> "strategy.signal", queue |-> "", bot |-> b]

\* natsClient.QueueSubscribe(EventTypeTradeSignal, "trading-bot", ...) of instance b
SignalSubscription(b) == [subject |-> "strategy.signal", queue |-> "trading-bot", bot |-> b]

\* the subscriptions the trading-bot instances make at start-up
Subscriptions ==
    UNION { { SignalSubscription(b),
              [subject |-> "market.price.update", queue |-> "", bot |-> b],
              [subject |-> "risk.kill_switch", queue |-> "", bot |-> b] } : b \in Bots }

\* the sets of instances whose callback one event on the subject may reach: every
\* Subscribe subscriber, and one member of the queue group of the QueueSubscribe
\* subscribers
ReceiverSets(subject) ==
    LET subs == {sub \in Subscriptions : sub.subject = subject}
        plain == {sub.bot : sub \in {x \in subs : x.queue = ""}}
        group == {sub.bot : sub \in {x \in subs : x.queue # ""}}
    IN  IF group = {} THEN {plain} ELSE {plain \cup {member} : member \in group}

\* one event on the subject reaches the callbacks of the instances in receivers
Deliver(subject, receivers) ==
    received' = [b \in Bots |-> IF b \in receivers
                                THEN [received[b] EXCEPT ![subject] = @ + 1]
                                ELSE received[b]]

\* an event published on a subject that has Subscribe subscribers only: the
\* callbacks it reaches change nothing but the log
Broadcast(subject) == \E receivers \in ReceiverSets(subject) : Deliver(subject, receivers)

(***************************************************************************)
(* RiskManager                                                             *)
(***************************************************************************)
\* logRiskEvent: one risk_events row and one risk.violation event
logRiskEvent(eventType) ==
    /\ risk_events' = [risk_events EXCEPT ![eventType] = @ + 1]
    /\ busEvents' = Publish("risk.violation")

lossLimit == (PortfolioValue * DailyLossLimitPercent) \div 100

\* checkDailyLossLimit: the query of the daily P&L and the comparison
DailyLossExceeded(strategy) ==
    SumPnl(SelectSeq(trades, LAMBDA t : t.strategy_id = strategy)) < -lossLimit

\* checkMaxOpenPositions
MaxPositionsReached(strategy) ==
    Cardinality(OpenTradeIds(strategy)) >= MaxOpenPositions

\* the persisted kill-switch flag instead of the one held in memory
KillSwitchPersisted(rm) == system_config.enabled

\* rm.killSwitch.enabled
KillSwitchEnabled(rm) == killSwitch[rm].enabled

\* ValidateTradeSignal with the position size checked before the open positions
RuleVerdictSizeFirst(rm, signal) ==
    IF KillSwitchEnabled(rm) THEN "KILL_SWITCH"
    ELSE IF DailyLossExceeded(signal.strategy_id) THEN "DAILY_LOSS_LIMIT"
    ELSE IF signal.quantity * signal.price > MaxPositionSizeUSD THEN "POSITION_SIZE"
    ELSE IF MaxPositionsReached(signal.strategy_id) THEN "MAX_POSITIONS"
    ELSE IF signal.stop_loss_price = 0 THEN "STOP_LOSS_MISSING"
    ELSE IF signal.price = 0 THEN "panic"
    ELSE IF Abs(signal.price - signal.stop_loss_price) * 100
                > (StopLossPercent * 2) * signal.price THEN "STOP_LOSS_TOO_WIDE"
    ELSE "ok"

\* ValidateTradeSignal: the first failing rule, or "ok"; "panic" is the division by
\* a zero entry price in the stop-loss percentage
RuleVerdict(rm, signal) ==
    IF KillSwitchEnabled(rm) THEN "KILL_SWITCH"
    ELSE IF DailyLossExceeded(signal.strategy_id) THEN "DAILY_LOSS_LIMIT"
    ELSE IF MaxPositionsReached(signal.strategy_id) THEN "MAX_POSITIONS"
    ELSE IF signal.quantity * signal.price > MaxPositionSizeUSD THEN "POSITION_SIZE"
    ELSE IF signal.stop_loss_price = 0 THEN "STOP_LOSS_MISSING"
    ELSE IF signal.price = 0 THEN "panic"
    ELSE IF Abs(signal.price - signal.stop_loss_price) * 100
                > (StopLossPercent * 2) * signal.price THEN "STOP_LOSS_TOO_WIDE"
    ELSE "ok"

Rejected(b, kind) == [bot |-> b, result |-> "reject", kind |-> kind]

\* a consumer that goes on to PlaceOrder whatever ValidateTradeSignal returned
OnValidateResultIgnored(result) == "place_check"

\* the strategy.signal callback after ValidateTradeSignal: on an error the signal is
\* skipped and the callback returns nil, otherwise PlaceOrder follows
OnValidateResult(result) == IF result = "ok" THEN "place_check" ELSE "idle"

\* the signal the callback still holds at that position
Held(b, signal, position) == [cur EXCEPT ![b] = IF position = "idle" THEN NoSignal ELSE signal]

\* the bus hands a strategy.signal event to one member of the queue group; its
\* callback runs ValidateTradeSignal and branches on the result
ValidateTradeSignal(b, inp) ==
    /\ pc[b] = "idle"
    /\ signalsSent < MaxSignals
    /\ signalsSent' = signalsSent + 1
    /\ \E receivers \in ReceiverSets("strategy.signal") :
           b \in receivers /\ Deliver("strategy.signal", receivers)
    /\ UNCHANGED <<lastPlace, closeSignals>>
    /\ LET signal == [id |-> signalsSent + 1, strategy_id |-> StrategyID,
                      symbol |-> Symbol, side |-> inp.side,
                      quantity |-> inp.quantity,
                      stop_loss_price |-> inp.stop_loss_price, price |-> inp.price]
           v == RuleVerdict(b, signal)
       IN  CASE v = "ok" ->
                 /\ cur' = Held(b, signal, OnValidateResult("ok"))
                 /\ lastValidate' = [bot |-> b, result |-> "ok", kind |-> "none"]
                 /\ pc' = [pc EXCEPT ![b] = OnValidateResult("ok")]
                 /\ UNCHANGED <<risk_events, busEvents, frame>>
             [] v = "KILL_SWITCH" ->
                 \* rejected before any risk event is written
                 /\ lastValidate' = Rejected(b, v)
                 /\ cur' = Held(b, signal, OnValidateResult("reject"))
                 /\ pc' = [pc EXCEPT ![b] = OnValidateResult("reject")]
                 /\ UNCHANGED <<risk_events, busEvents, frame>>
             [] v = "DAILY_LOSS_LIMIT" ->
                 \* checkDailyLossLimit calls EnableKillSwitch before it returns
                 /\ cur' = [cur EXCEPT ![b] = signal]
                 /\ UNCHANGED lastValidate
                 /\ pc' = [pc EXCEPT ![b] = "ek_persist"]
                 /\ frame' = [frame EXCEPT ![b] = [rm |-> b, ret |-> "daily_reject",
                                                     before |-> Statuses(orders),
                                                     result |-> "running"]]
                 /\ UNCHANGED <<risk_events, busEvents>>
             [] v = "panic" ->
                 /\ pc' = [pc EXCEPT ![b] = "crashed"]
                 /\ UNCHANGED <<cur, lastValidate, risk_events, busEvents, frame>>
             [] OTHER ->
                 /\ logRiskEvent(v)
                 /\ lastValidate' = Rejected(b, v)
                 /\ cur' = Held(b, signal, OnValidateResult("reject"))
                 /\ pc' = [pc EXCEPT ![b] = OnValidateResult("reject")]
                 /\ UNCHANGED frame
    /\ UNCHANGED <<mdVars, orders, trades, system_config, ksVars, exec>>

\* ValidateTradeSignal after checkDailyLossLimit returned its error
ValidateDailyLossReject(b) ==
    /\ pc[b] = "daily_reject"
    /\ logRiskEvent("DAILY_LOSS_LIMIT")
    /\ lastValidate' = Rejected(b, "DAILY_LOSS_LIMIT")
    /\ pc' = [pc EXCEPT ![b] = OnValidateResult("reject")]
    /\ cur' = Held(b, cur[b], OnValidateResult("reject"))
    /\ frame' = [frame EXCEPT ![b] = NoFrame]
    /\ UNCHANGED <<mdVars, orders, trades, system_config, ksVars, lastPlace,
                   exec, signalsSent, closeSignals, received>>

\* the frame of an EnableKillSwitch call that has returned: checkDailyLossLimit goes
\* on in ValidateTradeSignal, which still holds what it was called with
Returned(fr, result) ==
    [NoFrame EXCEPT !.result = result,
                    !.before = IF fr.ret = "daily_reject" THEN fr.before ELSE <<>>]

\* EnableKillSwitch: the flag is set, then the system_config row is updated
EnableKillSwitchPersist(t) ==
    /\ pc[t] = "ek_persist"
    /\ killSwitch' = [killSwitch EXCEPT ![frame[t].rm] = [enabled |-> TRUE]]
    /\ ksRequested' = [ksRequested EXCEPT ![frame[t].rm] = TRUE]
    /\ \E ok \in DbOutcomes :
         /\ IF ok
            THEN /\ system_config' = [enabled |-> TRUE]
                 /\ pc' = [pc EXCEPT ![t] = "ek_cancel"]
                 /\ UNCHANGED frame
            ELSE /\ pc' = [pc EXCEPT ![t] = frame[t].ret]
                 /\ frame' = [frame EXCEPT ![t] = Returned(frame[t], "error")]
                 /\ UNCHANGED system_config
    /\ UNCHANGED <<mdVars, orders, trades, risk_events, cur, lastValidate, lastPlace, exec,
                   signalsSent, closeSignals, received, busEvents>>

\* UPDATE orders SET status = 'CANCELLED' WHERE status IN ('PENDING', 'OPEN')
CancelAllOpenOrders(os) ==
    [i \in 1..Len(os) |->
        IF os[i].status \in {OrderStatusPending, OrderStatusOpen}
        THEN [os[i] EXCEPT !.status = OrderStatusCancelled]
        ELSE os[i]]

\* EnableKillSwitch: the cancellation statement; its error is only logged
EnableKillSwitchCancel(t) ==
    /\ pc[t] = "ek_cancel"
    /\ \E ok \in DbOutcomes :
         /\ orders' = IF ok THEN CancelAllOpenOrders(orders) ELSE orders
    /\ pc' = [pc EXCEPT ![t] = "ek_tail"]
    /\ UNCHANGED <<mdVars, trades, system_config, risk_events, ksVars, cur, frame,
                   lastValidate, lastPlace, exec, signalsSent, closeSignals, received, busEvents>>

\* EnableKillSwitch: the risk.kill_switch event, the KILL_SWITCH risk event, return nil
EnableKillSwitchReturn(t) ==
    /\ pc[t] = "ek_tail"
    /\ risk_events' = [risk_events EXCEPT !["KILL_SWITCH"] = @ + 1]
    /\ busEvents' = [busEvents EXCEPT !["risk.kill_switch.enabled"] = @ + 1,
                                      !["risk.violation"] = @ + 1]
    /\ Broadcast("risk.kill_switch")
    /\ frame' = [frame EXCEPT ![t] = Returned(frame[t], "ok")]
    /\ pc' = [pc EXCEPT ![t] = frame[t].ret]
    /\ UNCHANGED <<mdVars, orders, trades, system_config, ksVars, cur, lastValidate,
                   lastPlace, exec, signalsSent, closeSignals>>

\* an operator invokes EnableKillSwitch on the risk gate of bot b
AdminEnableKillSwitch(b) ==
    /\ pc[Admin] = "idle"
    /\ frame' = [frame EXCEPT ![Admin] = [rm |-> b, ret |-> "enabled",
                                            before |-> Statuses(orders),
                                            result |-> "running"]]
    /\ pc' = [pc EXCEPT ![Admin] = "ek_persist"]
    /\ UNCHANGED <<mdVars, storeVars, ksVars, cur, lastValidate, lastPlace, exec,
                   signalsSent, closeSignals, received, busEvents>>

\* DisableKillSwitch written to toggle the flag and to reopen what the kill switch
\* cancelled
DisableKillSwitchReopening(b) ==
    /\ pc[Admin] \in {"enabled", "disabled"}
    /\ pc' = [pc EXCEPT ![Admin] = IF @ = "enabled" THEN "disabled" ELSE "finished"]
    /\ killSwitch' = [killSwitch EXCEPT ![b] = [enabled |-> ~@.enabled]]
    /\ ksRequested' = [ksRequested EXCEPT ![b] = FALSE]
    /\ orders' = [i \in 1..Len(orders) |->
                     IF orders[i].status = OrderStatusCancelled
                     THEN [orders[i] EXCEPT !.status = OrderStatusPending]
                     ELSE orders[i]]
    /\ system_config' = [enabled |-> FALSE]
    /\ busEvents' = Publish("risk.kill_switch.disabled")
    /\ Broadcast("risk.kill_switch")
    /\ UNCHANGED <<mdVars, trades, risk_events, cur, frame, lastValidate, lastPlace,
                   exec, signalsSent, closeSignals>>

\* the operator, after its EnableKillSwitch returned, invokes DisableKillSwitch on
\* the risk gate of bot b, and then once more
DisableKillSwitch(b) ==
    /\ pc[Admin] \in {"enabled", "disabled"}
    /\ pc' = [pc EXCEPT ![Admin] = IF @ = "enabled" THEN "disabled" ELSE "finished"]
    /\ killSwitch' = [killSwitch EXCEPT ![b] = [enabled |-> FALSE]]
    /\ ksRequested' = [ksRequested EXCEPT ![b] = FALSE]
    /\ \E ok \in DbOutcomes :
         /\ IF ok
            THEN /\ system_config' = [enabled |-> FALSE]
                 /\ busEvents' = Publish("risk.kill_switch.disabled")
                 /\ Broadcast("risk.kill_switch")
            ELSE UNCHANGED <<system_config, busEvents, received>>
    /\ UNCHANGED <<mdVars, orders, trades, risk_events, cur, frame, lastValidate, lastPlace,
                   exec, signalsSent, closeSignals>>

(***************************************************************************)
(* OrderManager                                                            *)
(***************************************************************************)
\* PlaceOrder: SELECT id FROM orders WHERE client_order_id = $1
PlaceOrderCheck(b) ==
    /\ pc[b] = "place_check"
    /\ IF RowsWithClientOrderID(generateClientOrderID(cur[b])) # {}
       THEN /\ lastPlace' = [bot |-> b, result |-> "ok_existing"]
            /\ pc' = [pc EXCEPT ![b] = "idle"]
            /\ cur' = [cur EXCEPT ![b] = NoSignal]
       ELSE /\ pc' = [pc EXCEPT ![b] = "place_insert"]
            /\ UNCHANGED <<lastPlace, cur>>
    /\ UNCHANGED <<mdVars, storeVars, ksVars, frame, lastValidate, exec, envVars>>

NewOrderRow(signal) ==
    [client_order_id |-> generateClientOrderID(signal),
     strategy_id |-> signal.strategy_id,
     symbol |-> signal.symbol,
     side |-> signal.side,
     quantity |-> signal.quantity,
     stop_loss_price |-> IF signal.stop_loss_price > 0
                         THEN {signal.stop_loss_price} ELSE NULL,
     status |-> OrderStatusPending,
     exchange_order_id |-> NULL,
     filled_quantity |-> 0,
     average_fill_price |-> NULL,
     fees |-> 0]

\* PlaceOrder: the transaction that inserts the PENDING row (the UNIQUE constraint
\* on client_order_id rejects a second row), then `go om.executeOrder(...)`
PlaceOrderInsert(b) ==
    /\ pc[b] = "place_insert"
    /\ IF RowsWithClientOrderID(generateClientOrderID(cur[b])) # {}
       THEN /\ lastPlace' = [bot |-> b, result |-> "err_insert"]
            /\ UNCHANGED <<orders, exec>>
       ELSE /\ orders' = Append(orders, NewOrderRow(cur[b]))
            /\ exec' = Append(exec, [pc |-> "dispatch", signal |-> cur[b],
                                     trade |-> 0, calls |-> 0, resp |-> NoResponse])
            /\ lastPlace' = [bot |-> b, result |-> "ok_inserted"]
    /\ pc' = [pc EXCEPT ![b] = "idle"]
    /\ cur' = [cur EXCEPT ![b] = NoSignal]
    /\ UNCHANGED <<mdVars, trades, system_config, risk_events, ksVars, frame,
                   lastValidate, envVars>>

\* createTrade: INSERT INTO trades (...)
NewTradeRow(o, order) ==
    [entry_order_id |-> o,
     exit_order_id |-> NULL,
     strategy_id |-> order.strategy_id,
     symbol |-> order.symbol,
     entry_price |-> CHOOSE x \in order.average_fill_price : TRUE,
     quantity |-> order.quantity,
     side |-> "LONG",
     entry_time |-> clock,
     exit_price |-> NULL,
     exit_time |-> NULL,
     pnl |-> NULL,
     pnl_percent |-> NULL,
     fees_total |-> NULL,
     hold_duration |-> NULL,
     exit_reason |-> NULL]

\* closeTrade: SELECT ... WHERE strategy_id = $1 AND symbol = $2 AND exit_time IS NULL
\* ORDER BY entry_time DESC LIMIT 1  (0 when there is no such row)
SelectOpenTrade(strategy, symbol) ==
    LET open == {i \in 1..Len(trades) : /\ trades[i].strategy_id = strategy
                                        /\ trades[i].symbol = symbol
                                        /\ trades[i].exit_time = NULL}
    IN  IF open = {} THEN 0 ELSE CHOOSE i \in open : \A j \in open : j <= i

\* updateOrderStatus: UPDATE orders SET status = $2, ... WHERE id = $1
\* the same statement with the fees column left as it is
updateOrderStatusKeepFees(os, o, status, exchangeOrderID, filledQuantity, avgFillPrice, fees) ==
    [os EXCEPT ![o].status = status,
               ![o].exchange_order_id = IF exchangeOrderID = "" THEN @ ELSE {exchangeOrderID},
               ![o].filled_quantity = filledQuantity,
               ![o].average_fill_price = IF avgFillPrice = NULL THEN @ ELSE avgFillPrice]

updateOrderStatus(os, o, status, exchangeOrderID, filledQuantity, avgFillPrice, fees) ==
    [os EXCEPT ![o].status = status,
               ![o].exchange_order_id = IF exchangeOrderID = "" THEN @ ELSE {exchangeOrderID},
               ![o].filled_quantity = filledQuantity,
               ![o].average_fill_price = IF avgFillPrice = NULL THEN @ ELSE avgFillPrice,
               ![o].fees = fees]

\* the OrderResponse the exchange returns for the order when it answers r: the id
\* it assigned and the filled quantity (all of it when filled); with an error
\* there is no response
OrderResponse(order, r) ==
    [err |-> r.err, status |-> r.status,
     exchange_order_id |-> IF r.err THEN "" ELSE ExchangeOrderID,
     filled_quantity |-> IF ~r.err /\ r.status = OrderStatusFilled THEN order.quantity ELSE 0,
     average_fill_price |-> r.average_fill_price, fees |-> r.fees]

\* executeOrder: reads the order row, calls exchange.PlaceOrder, then
\* updateOrderStatus with the response (FAILED on error) and the order.placed /
\* order.failed event.  On a FILLED response handleFilledOrder follows: a BUY
\* creates the trade (createTrade), a SELL selects the open trade that closeTrade
\* then updates in a statement of its own.
ExecuteOrder(o, r) ==
    /\ o \in 1..Len(exec)
    /\ exec[o].pc = "dispatch"
    /\ orders' = IF r.err
                 THEN updateOrderStatus(orders, o, OrderStatusFailed, "", 0, {0}, 0)
                 ELSE LET resp == OrderResponse(orders[o], r)
                      IN  updateOrderStatus(orders, o, resp.status, resp.exchange_order_id,
                                            resp.filled_quantity, resp.average_fill_price,
                                            resp.fees)
    /\ LET order == orders'[o]
           placed == Publish(IF r.err THEN "order.failed" ELSE "order.placed")
       IN
       IF r.err \/ r.status # OrderStatusFilled \/ order.average_fill_price = NULL
       THEN \* not filled, or the Scan of a NULL average_fill_price fails
            /\ exec' = [exec EXCEPT ![o].calls = @ + 1, ![o].pc = "done",
                                         ![o].resp = OrderResponse(orders[o], r)]
            /\ busEvents' = placed
            /\ UNCHANGED trades
       ELSE IF order.side = "BUY"
       THEN /\ trades' = Append(trades, NewTradeRow(o, order))
            /\ busEvents' = [placed EXCEPT !["trade.opened"] = @ + 1,
                                           !["order.filled"] = @ + 1]
            /\ exec' = [exec EXCEPT ![o].calls = @ + 1, ![o].pc = "done",
                                         ![o].resp = OrderResponse(orders[o], r)]
       ELSE LET t == SelectOpenTrade(order.strategy_id, order.symbol) IN
            IF t = 0
            THEN /\ busEvents' = [placed EXCEPT !["order.filled"] = @ + 1]
                 /\ exec' = [exec EXCEPT ![o].calls = @ + 1, ![o].pc = "done",
                                         ![o].resp = OrderResponse(orders[o], r)]
                 /\ UNCHANGED trades
            ELSE /\ exec' = [exec EXCEPT ![o].calls = @ + 1, ![o].pc = "close",
                                         ![o].trade = t,
                                         ![o].resp = OrderResponse(orders[o], r)]
                 /\ busEvents' = placed
                 /\ UNCHANGED trades
    /\ UNCHANGED <<mdVars, system_config, risk_events, ksVars, pc, cur, frame,
                   lastValidate, lastPlace, signalsSent, closeSignals, received>>

\* the price difference times the quantity, with no fees taken off
TradePnlGross(trade, exitPrice, totalFees) ==
    IF trade.side = "LONG"
    THEN (exitPrice - trade.entry_price) * trade.quantity
    ELSE (trade.entry_price - exitPrice) * trade.quantity

\* closeTrade: the P&L of the selected trade
TradePnl(trade, exitPrice, totalFees) ==
    IF trade.side = "LONG"
    THEN (exitPrice - trade.entry_price) * trade.quantity - totalFees
    ELSE (trade.entry_price - exitPrice) * trade.quantity - totalFees

\* a number rounded to the scale of its column: the nearest multiple, a tie
\* going away from zero (n / d for d > 0)
RoundDiv(n, d) ==
    IF n >= 0 THEN (2 * n + d) \div (2 * d) ELSE -((2 * (-n) + d) \div (2 * d))

\* pnl_percent as the column DECIMAL(10,4) stores pnl.Div(entry_price * quantity)
\* .Mul(100), in units of 1/PercentScale percent.  Div keeps 16 decimal places,
\* which for amounts of this size rounds no value across a tie of the column.
TradePnlPercent(trade, pnl) ==
    RoundDiv(pnl * 100 * PercentScale, trade.entry_price * trade.quantity)

\* an UPDATE that sets the exit columns and leaves the P&L columns as they are
CloseTradeRowExitOnly(trade, o, exitPrice, exitFees) ==
    [trade EXCEPT !.exit_order_id = {o},
                  !.exit_price = {exitPrice},
                  !.exit_time = {"now"},
                  !.exit_reason = {"SIGNAL"}]

\* closeTrade: UPDATE trades SET exit_order_id = $2, ... WHERE id = $1
CloseTradeRow(trade, o, exitPrice, exitFees) ==
    LET totalFees == orders[trade.entry_order_id].fees + exitFees
        pnl == TradePnl(trade, exitPrice, totalFees)
    IN  [trade EXCEPT !.exit_order_id = {o},
                      !.exit_price = {exitPrice},
                      !.exit_time = {"now"},
                      !.pnl = {pnl},
                      !.pnl_percent = {TradePnlPercent(trade, pnl)},
                      !.fees_total = {totalFees},
                      !.hold_duration = {"since_entry"},
                      !.exit_reason = {"SIGNAL"}]

\* pnl.Div(trade.EntryPrice.Mul(trade.Quantity)): decimal's Div panics on a zero
\* divisor
PnlPercentPanics(trade) == trade.entry_price * trade.quantity = 0

\* closeTrade after the SELECT: compute P&L, update the trade, publish events; a
\* panic in the goroutine ends it with nothing written
CloseTrade(o) ==
    /\ o \in 1..Len(exec)
    /\ exec[o].pc = "close"
    /\ LET t == exec[o].trade
           exitPrice == CHOOSE x \in orders[o].average_fill_price : TRUE
       IN IF PnlPercentPanics(trades[t])
          THEN /\ exec' = [exec EXCEPT ![o].pc = "panic"]
               /\ UNCHANGED <<trades, busEvents>>
          ELSE /\ trades' = [trades EXCEPT ![t] = CloseTradeRow(trades[t], o, exitPrice,
                                                                 orders[o].fees)]
               /\ busEvents' = [busEvents EXCEPT !["trade.closed"] = @ + 1,
                                                 !["order.filled"] = @ + 1]
               /\ exec' = [exec EXCEPT ![o].pc = "done"]
    /\ UNCHANGED <<mdVars, orders, system_config, risk_events, ksVars, pc, cur, frame,
                   lastValidate, lastPlace, signalsSent, closeSignals, received>>

(***************************************************************************)
(* MarketDataService: candle aggregation                                   *)
(***************************************************************************)
TickPrices == {100, 110}
TickVolume == 1

tradingVars == <<storeVars, botVars, envVars, stratVars, loopVars>>

\* time passes in the market-data process
AdvanceClock ==
    /\ clock < MaxClock
    /\ clock' = clock + 1
    /\ UNCHANGED <<tradingVars, candleBufferMu, tickLog, ticksSent, inflight, buffers, candleBuffer,
                   pendingSaves, flush, price_data, writeCount>>

\* timestamps count seconds, the clock counts minutes
SecondsPerMinute == 60

\* PaperExchange.UpdatePrice / CoinbaseExchange.processTicker: the update is
\* stamped time.Now() and every callback is started with `go callback(update)`;
\* Emitted is the effect, EmitTick the step of a connector that runs on
Emitted(symbol, price, second) ==
    /\ ticksSent < MaxTicks
    /\ ticksSent' = ticksSent + 1
    /\ inflight' = inflight \cup {[seq |-> ticksSent + 1, Symbol |-> symbol,
                                   Price |-> price, Volume |-> TickVolume,
                                   Timestamp |-> clock * SecondsPerMinute + second]}
    /\ tickLog' = Append(tickLog, [Symbol |-> symbol, Price |-> price,
                                   Volume |-> TickVolume,
                                   Timestamp |-> clock * SecondsPerMinute + second])

EmitTick(symbol, price, second) ==
    /\ Emitted(symbol, price, second)
    /\ UNCHANGED <<tradingVars, candleBufferMu, clock, buffers, candleBuffer, pendingSaves, flush,
                   price_data, writeCount>>

\* update.Timestamp.Truncate(1 * time.Minute): a truncated time is named by the
\* number of its minute
TruncateMinute(t) == t \div SecondsPerMinute

NewCandleBuffer(update, candleTime) ==
    [Symbol |-> update.Symbol, Open |-> update.Price, High |-> update.Price,
     Low |-> update.Price, Close |-> update.Price, Volume |-> update.Volume,
     StartTime |-> candleTime]

\* the update of a buffer that takes the price of the tick as its high
UpdateCandleBufferLastHigh(buffer, update) ==
    [buffer EXCEPT !.High = update.Price,
                   !.Low = IF update.Price < @ THEN update.Price ELSE @,
                   !.Close = update.Price,
                   !.Volume = @ + update.Volume]

UpdateCandleBuffer(buffer, update) ==
    [buffer EXCEPT !.High = IF update.Price > @ THEN update.Price ELSE @,
                   !.Low = IF update.Price < @ THEN update.Price ELSE @,
                   !.Close = update.Price,
                   !.Volume = @ + update.Volume]

\* decimal.Decimal.InexactFloat64: the prices and volumes of the model are integers
\* below 2^53, which float64 represents exactly
InexactFloat64(d) == d

\* the PriceUpdateEvent that handlePriceUpdate publishes; ID is the event's uuid
PriceUpdateEvent(update) ==
    [ID |-> update.seq, Symbol |-> update.Symbol, Price |-> InexactFloat64(update.Price),
     Volume |-> InexactFloat64(update.Volume), Time |-> update.Timestamp]

\* the bus hands a market.price.update event to every subscription made by
\* natsClient.Subscribe(EventTypePriceUpdate, ...): the event queues there
DeliverPrice(event) ==
    [b \in Bots |-> IF priceSub[b].active
                    THEN [priceSub[b] EXCEPT !.pending = Append(@, event)]
                    ELSE priceSub[b]]

\* mds.candleBufferMu.Lock() of a callback started with `go callback(update)`:
\* the callback passes once no other task holds the mutex (here the mutex
\* does not exclude a second holder)
LockCandleBufferShared(update) ==
    /\ update \in inflight
    /\ update.seq \notin candleBufferMu
    /\ candleBufferMu' = candleBufferMu \cup {update.seq}
    /\ UNCHANGED <<tradingVars, tickLog, clock, ticksSent, inflight, buffers, candleBuffer,
                   pendingSaves, flush, price_data, writeCount>>

\* mds.candleBufferMu.Lock() of a callback started with `go callback(update)`:
\* the callback passes once no other task holds the mutex
LockCandleBuffer(update) ==
    /\ update \in inflight
    /\ candleBufferMu = {}
    /\ candleBufferMu' = candleBufferMu \cup {update.seq}
    /\ UNCHANGED <<tradingVars, tickLog, clock, ticksSent, inflight, buffers, candleBuffer,
                   pendingSaves, flush, price_data, writeCount>>

\* handlePriceUpdate -> addToCandleBuffer for one started callback: Lock (unless the
\* callback holds the mutex already), the update of the buffer, the deferred
\* Unlock; then the market.price.update event
addToCandleBuffer(update) ==
    /\ update \in inflight
    /\ candleBufferMu \subseteq {update.seq}
    /\ candleBufferMu' = candleBufferMu \ {update.seq}
    /\ inflight' = inflight \ {update}
    /\ LET candleTime == TruncateMinute(update.Timestamp)
           ptr == candleBuffer[update.Symbol]
           exists == ptr # 0
       IN  IF ~exists \/ buffers[ptr].StartTime # candleTime
           THEN /\ pendingSaves' = IF exists THEN pendingSaves \cup {ptr}
                                   ELSE pendingSaves
                /\ buffers' = Append(buffers, NewCandleBuffer(update, candleTime))
                /\ candleBuffer' = [candleBuffer EXCEPT
                                       ![update.Symbol] = Len(buffers) + 1]
           ELSE /\ buffers' = [buffers EXCEPT ![ptr] = UpdateCandleBuffer(@, update)]
                /\ UNCHANGED <<candleBuffer, pendingSaves>>
    /\ busEvents' = Publish("market.price.update")
    /\ Broadcast("market.price.update")
    /\ priceSub' = DeliverPrice(PriceUpdateEvent(update))
    /\ UNCHANGED <<storeVars, botVars, mrs, strategySignals, loopVars, signalsSent,
                   closeSignals, tickLog, clock, ticksSent, flush, price_data, writeCount>>

CandleKey(row) == <<row.time, row.exchange, row.symbol, row.interval>>

CandleRow(buffer) ==
    [time |-> buffer.StartTime, exchange |-> ExchangeName, symbol |-> buffer.Symbol,
     interval |-> "1m", open |-> buffer.Open, high |-> buffer.High,
     low |-> buffer.Low, close |-> buffer.Close, volume |-> buffer.Volume]

\* a plain INSERT into a table without the conflict target
InsertCandle(rows, row) == Append(rows, row)

\* INSERT INTO price_data ... ON CONFLICT (time, exchange, symbol, interval) DO UPDATE
UpsertCandle(rows, row) ==
    IF \E i \in 1..Len(rows) : CandleKey(rows[i]) = CandleKey(row)
    THEN [i \in 1..Len(rows) |->
             IF CandleKey(rows[i]) = CandleKey(row) THEN row ELSE rows[i]]
    ELSE Append(rows, row)

CountWrite(m) == [writeCount EXCEPT ![m] = IF @ < 2 THEN @ + 1 ELSE @]

\* saveCandle started by `go mds.saveCandle(...)` at a roll-over: the replaced
\* buffer is written; an error is logged and the candle dropped
saveCandle(ptr, outcomes) ==
    /\ ptr \in pendingSaves
    /\ pendingSaves' = pendingSaves \ {ptr}
    /\ \E ok \in outcomes :
         IF ok
         THEN /\ price_data' = UpsertCandle(price_data, CandleRow(buffers[ptr]))
              /\ writeCount' = CountWrite(buffers[ptr].StartTime)
         ELSE UNCHANGED <<price_data, writeCount>>
    /\ UNCHANGED <<tradingVars, candleBufferMu, tickLog, clock, ticksSent, inflight, buffers, candleBuffer,
                   flush>>

\* flushCandleBuffers: the pointers of all buffers are collected under the mutex
FlushCollect ==
    /\ flush.pc = "idle"
    /\ candleBufferMu = {}
    /\ candleBuffer[Symbol] # 0
    /\ flush' = [pc |-> "read", ptr |-> candleBuffer[Symbol], snap |-> NoCandle]
    /\ UNCHANGED <<tradingVars, candleBufferMu, tickLog, clock, ticksSent, inflight, buffers, candleBuffer,
                   pendingSaves, price_data, writeCount>>

\* flushCandleBuffers -> saveCandle: the arguments of the statement are read from
\* the buffer one after the other, without the mutex, so that addToCandleBuffer
\* may update the buffer between two of them.  StartTime, Symbol and Open never
\* change once the buffer exists and are read with High.
FlushRead ==
    /\ flush.pc \in {"read", "read_low", "read_close", "read_volume"}
    /\ LET buffer == buffers[flush.ptr]
       IN  flush' =
             CASE flush.pc = "read" ->
                    [flush EXCEPT !.pc = "read_low",
                                  !.snap = [buffer EXCEPT !.Low = 0, !.Close = 0,
                                                          !.Volume = 0]]
               [] flush.pc = "read_low" ->
                    [flush EXCEPT !.pc = "read_close", !.snap.Low = buffer.Low]
               [] flush.pc = "read_close" ->
                    [flush EXCEPT !.pc = "read_volume", !.snap.Close = buffer.Close]
               [] flush.pc = "read_volume" ->
                    [flush EXCEPT !.pc = "write", !.snap.Volume = buffer.Volume]
    /\ UNCHANGED <<tradingVars, candleBufferMu, tickLog, clock, ticksSent, inflight, buffers, candleBuffer,
                   pendingSaves, price_data, writeCount>>

\* a statement with ON CONFLICT ... DO NOTHING: a row that exists is kept as it is
FlushWriteKeepExisting(outcomes) ==
    /\ flush.pc = "write"
    /\ flush' = [pc |-> "idle", ptr |-> 0, snap |-> NoCandle]
    /\ \E ok \in outcomes :
         IF ok /\ \A i \in 1..Len(price_data) :
                     CandleKey(price_data[i]) # CandleKey(CandleRow(flush.snap))
         THEN /\ price_data' = Append(price_data, CandleRow(flush.snap))
              /\ writeCount' = CountWrite(flush.snap.StartTime)
         ELSE UNCHANGED <<price_data, writeCount>>
    /\ UNCHANGED <<tradingVars, candleBufferMu, tickLog, clock, ticksSent, inflight, buffers, candleBuffer,
                   pendingSaves>>

\* flushCandleBuffers -> saveCandle: the statement is executed
FlushWrite(outcomes) ==
    /\ flush.pc = "write"
    /\ flush' = [pc |-> "idle", ptr |-> 0, snap |-> NoCandle]
    /\ \E ok \in outcomes :
         IF ok
         THEN /\ price_data' = UpsertCandle(price_data, CandleRow(flush.snap))
              /\ writeCount' = CountWrite(flush.snap.StartTime)
         ELSE UNCHANGED <<price_data, writeCount>>
    /\ UNCHANGED <<tradingVars, candleBufferMu, tickLog, clock, ticksSent, inflight, buffers, candleBuffer,
                   pendingSaves>>

\* the market-data process: exchange connector, tick callbacks, aggregation loop
NextMarketData ==
    \/ AdvanceClock
    \/ \E price \in TickPrices : EmitTick(Symbol, price, 0)
    \/ \E update \in inflight : addToCandleBuffer(update)
    \/ \E ptr \in pendingSaves : saveCandle(ptr, DbOutcomes)
    \/ FlushCollect
    \/ FlushRead
    \/ FlushWrite(DbOutcomes)

SpecMarketData == Init /\ [][NextMarketData]_vars

\* the callbacks of the ticks run in the order in which the ticks were emitted
NextInOrder(update) == \A other \in inflight : update.seq <= other.seq

\* the market-data process when tick callbacks run in emission order and the
\* database accepts every write
NextOrderedTicks ==
    \/ AdvanceClock
    \/ \E price \in TickPrices : EmitTick(Symbol, price, 0)
    \/ \E update \in inflight : NextInOrder(update) /\ addToCandleBuffer(update)
    \/ \E ptr \in pendingSaves : saveCandle(ptr, {TRUE})
    \/ FlushCollect
    \/ FlushRead
    \/ FlushWrite({TRUE})

SpecOrderedTicks == Init /\ [][NextOrderedTicks]_vars

\* the market-data process during a database outage that ends: the statements of
\* the roll-over saves may fail, those of the periodic flush are accepted
NextFlushRetry ==
    \/ AdvanceClock
    \/ \E price \in TickPrices : EmitTick(Symbol, price, 0)
    \/ \E update \in inflight : addToCandleBuffer(update)
    \/ \E ptr \in pendingSaves : saveCandle(ptr, DbOutcomes)
    \/ FlushCollect
    \/ FlushRead
    \/ FlushWrite({TRUE})

\* every started goroutine runs, time passes, and the ticker of runCandleAggregation
\* fires again and again; the exchange may stop sending ticks
FairMarketData ==
    /\ WF_vars(AdvanceClock)
    /\ WF_vars(\E update \in inflight : addToCandleBuffer(update))
    /\ WF_vars(\E ptr \in pendingSaves : saveCandle(ptr, DbOutcomes))
    /\ WF_vars(FlushCollect)
    /\ WF_vars(FlushRead)
    /\ WF_vars(FlushWrite({TRUE}))

SpecFlushRetry == Init /\ [][NextFlushRetry]_vars /\ FairMarketData

(***************************************************************************)
(* MeanReversionStrategy                                                   *)
(***************************************************************************)
smaPeriod == 20
rsiPeriod == 14
bbPeriod == 20
bbStdDev == 2
rsiOversold == 30
rsiOverbought == 70
maxHistorySize == 100

\* the limit main passes to LoadPriceHistory
LoadLimit == 100

\* quantities and stop-loss prices of strategy signals count hundredths
QuantityScale == 100

RECURSIVE SumSeq(_)
SumSeq(s) == IF s = <<>> THEN 0 ELSE Head(s) + SumSeq(Tail(s))

\* prices[len(prices)-n:]
LastPrices(prices, n) == SubSeq(prices, Len(prices) - n + 1, Len(prices))

\* SMA: the mean of the last period prices as the fraction num / den, zero when
\* there are fewer prices
SMA(prices, period) ==
    IF Len(prices) < period
    THEN [num |-> 0, den |-> 1]
    ELSE [num |-> SumSeq(LastPrices(prices, period)), den |-> period]

\* decimal.GreaterThan / LessThan against a fraction
GreaterThan(d, f) == d * f.den > f.num
LessThan(d, f) == d * f.den < f.num

\* the sums RSI accumulates over the last period changes
Gains(prices, period) ==
    SumSeq([k \in 1..period |->
               LET i == Len(prices) - period + k
                   change == prices[i] - prices[i - 1]
               IN  IF change > 0 THEN change ELSE 0])

Losses(prices, period) ==
    SumSeq([k \in 1..period |->
               LET i == Len(prices) - period + k
                   change == prices[i] - prices[i - 1]
               IN  IF change > 0 THEN 0 ELSE Abs(change)])

\* RSI as the fraction num / den: 50 with fewer than period + 1 prices, 100 when
\* there is no loss, else 100 - 100 / (1 + avgGain / avgLoss)
RSI(prices, period) ==
    IF Len(prices) < period + 1
    THEN [num |-> 50, den |-> 1]
    ELSE LET gains == Gains(prices, period)
             losses == Losses(prices, period)
         IN  IF losses = 0
             THEN [num |-> 100, den |-> 1]
             ELSE [num |-> 100 * gains, den |-> gains + losses]

\* rsi < level and rsi > level for the fraction rsi
RsiBelow(rsi, level) == rsi.num < level * rsi.den
RsiAbove(rsi, level) == rsi.num > level * rsi.den

\* BollingerBands: middle is SMA; the deviation is kept as the sum of the squares
\* of period * price - sum over the last period prices, which is period^3 times
\* the variance
BollingerBands(prices, period, stdDevMultiplier) ==
    IF Len(prices) < period
    THEN [middle |-> [num |-> 0, den |-> 1], sqdev |-> 0, period |-> 1,
          multiplier |-> stdDevMultiplier]
    ELSE LET recentPrices == LastPrices(prices, period)
             sum == SumSeq(recentPrices)
         IN  [middle |-> SMA(prices, period),
              sqdev |-> SumSeq([k \in 1..period |->
                                   (period * recentPrices[k] - sum)
                                       * (period * recentPrices[k] - sum)]),
              period |-> period,
              multiplier |-> stdDevMultiplier]

\* currentPrice.LessThan(lowerBB), lower = middle - multiplier * stdDev:
\* with d = sum - period * price, d > 0 and period * d^2 > multiplier^2 * sqdev
BelowLowerBand(price, bb) ==
    LET d == bb.middle.num - bb.middle.den * price
    IN  /\ d > 0
        /\ bb.period * d * d > bb.multiplier * bb.multiplier * bb.sqdev

\* currentPrice.GreaterThan(upperBB)
AboveUpperBand(price, bb) ==
    LET d == bb.middle.den * price - bb.middle.num
    IN  /\ d > 0
        /\ bb.period * d * d > bb.multiplier * bb.multiplier * bb.sqdev

\* SELECT close FROM price_data WHERE symbol AND interval = '1m' ORDER BY time DESC
\* LIMIT limit, reversed to chronological order; the rows of price_data are in time
\* order
LoadPriceHistory(rows, limit) ==
    LET mine == SelectSeq(rows, LAMBDA r : r.symbol = Symbol /\ r.interval = "1m")
        kept == IF Len(mine) > limit THEN LastPrices(mine, limit) ELSE mine
    IN  [i \in 1..Len(kept) |-> kept[i].close]

\* main: LoadPriceHistory (an error is logged, the history stays empty), then the
\* subscription to market.price.update
StartStrategy(b, outcomes) ==
    /\ ~priceSub[b].active
    /\ \E ok \in outcomes :
         LET prices == IF ok THEN LoadPriceHistory(price_data, LoadLimit) ELSE <<>>
         IN  mrs' = [mrs EXCEPT ![b] = [priceHistory |-> prices, loaded |-> prices]]
    /\ priceSub' = [priceSub EXCEPT ![b].active = TRUE]
    /\ UNCHANGED <<storeVars, botVars, envVars, strategySignals, clock, ticksSent, inflight,
                   buffers, candleBuffer, pendingSaves, flush, price_data, writeCount,
                   tickLog, candleBufferMu, loopVars>>

\* the subscription starts the callback of its next message although one is
\* still running
StartPriceCallbackOverlapping(b) ==
    /\ priceSub[b].pending # <<>>
    /\ priceSub' = [priceSub EXCEPT ![b].pending = Tail(@),
                                    ![b].running = @ \cup {Head(priceSub[b].pending)}]
    /\ UNCHANGED <<storeVars, botVars, envVars, mrs, strategySignals, clock, ticksSent,
                   inflight, buffers, candleBuffer, pendingSaves, flush, price_data,
                   writeCount, tickLog, candleBufferMu, loopVars>>

\* the subscription of conn.Subscribe hands its messages to the callback one at a
\* time, in the order of their arrival: the next callback starts when the one
\* before has returned
StartPriceCallback(b) ==
    /\ priceSub[b].pending # <<>>
    /\ priceSub[b].running = {}
    /\ priceSub' = [priceSub EXCEPT ![b].pending = Tail(@),
                                    ![b].running = @ \cup {Head(priceSub[b].pending)}]
    /\ UNCHANGED <<storeVars, botVars, envVars, mrs, strategySignals, clock, ticksSent,
                   inflight, buffers, candleBuffer, pendingSaves, flush, price_data,
                   writeCount, tickLog, candleBufferMu, loopVars>>

\* append(mrs.priceHistory, price) without the cut to maxHistorySize
AppendPriceUnbounded(history, price) == Append(history, price)

\* append(mrs.priceHistory, price); beyond maxHistorySize the oldest price goes
AppendPrice(history, price) ==
    IF Len(history) + 1 > maxHistorySize
    THEN Tail(Append(history, price))
    ELSE Append(history, price)

\* SELECT COUNT(*) FROM trades WHERE strategy_id = $1 AND exit_time IS NULL
hasOpenPosition == OpenTradeIds(StrategyID) # {}

\* the entry condition with the RSI test alone
LongConditionRsiOnly(rsi, currentPrice, bb) == RsiBelow(rsi, rsiOversold)

\* rsi < mrs.rsiOversold && currentPrice.LessThan(lowerBB)
LongCondition(rsi, currentPrice, bb) ==
    RsiBelow(rsi, rsiOversold) /\ BelowLowerBand(currentPrice, bb)

\* generateLongSignal: quantity = MaxPositionSizeUSD / price and the stop-loss
\* StopLossPercent below the price, both in hundredths
generateLongSignal(currentPrice) ==
    [StrategyID |-> StrategyID, Symbol |-> Symbol, Side |-> "BUY", Type |-> "MARKET",
     Quantity |-> RoundDiv(MaxPositionSizeUSD * QuantityScale, currentPrice),
     StopLossPrice |-> currentPrice * (100 - StopLossPercent),
     Reason |-> "Mean reversion LONG", Indicators |-> [price |-> currentPrice]]

\* generateExitSignal: the opposite side, the quantity of the trade, no stop-loss
generateExitSignal(trade, currentPrice, reason) ==
    [StrategyID |-> StrategyID, Symbol |-> Symbol,
     Side |-> IF trade.side = "LONG" THEN "SELL" ELSE "BUY", Type |-> "MARKET",
     Quantity |-> trade.quantity * QuantityScale, StopLossPrice |-> 0,
     Reason |-> reason, Indicators |-> [price |-> currentPrice]]

\* the exit condition met at the SMA as well
ExitConditionAtSma(currentPrice, sma) == ~LessThan(currentPrice, sma)

\* currentPrice.GreaterThan(sma)
ExitCondition(currentPrice, sma) == GreaterThan(currentPrice, sma)

\* checkExitConditions for the open trade t the query returned
checkExitConditions(t, currentPrice, sma) ==
    IF ExitCondition(currentPrice, sma)
    THEN <<generateExitSignal(trades[t], currentPrice, "Price crossed SMA")>>
    ELSE <<>>

\* the signals OnPriceUpdate publishes for a history that ends with the price of
\* the update, when the query of checkExitConditions returns trade t (0: no row)
SignalsFor(history, t) ==
    IF Len(history) < bbPeriod
    THEN <<>>
    ELSE LET sma == SMA(history, smaPeriod)
             rsi == RSI(history, rsiPeriod)
             bb == BollingerBands(history, bbPeriod, bbStdDev)
             currentPrice == history[Len(history)]
         IN  IF ~hasOpenPosition
             THEN IF LongCondition(rsi, currentPrice, bb)
                  THEN <<generateLongSignal(currentPrice)>>
                  ELSE <<>>
             ELSE checkExitConditions(t, currentPrice, sma)

\* the callback of the market.price.update subscription: OnPriceUpdate for the
\* event it was started with
OnPriceUpdate(b) ==
    \E update \in priceSub[b].running :
        /\ priceSub' = [priceSub EXCEPT ![b].running = @ \ {update},
                                        ![b].handled = Append(@, update)]
        /\ IF update.Symbol # Symbol
           THEN UNCHANGED <<mrs, strategySignals, busEvents>>
           ELSE LET history == AppendPrice(mrs[b].priceHistory, update.Price)
                IN  /\ mrs' = [mrs EXCEPT ![b].priceHistory = history]
                    /\ \E t \in IF hasOpenPosition THEN OpenTradeIds(StrategyID) ELSE {0} :
                         LET signals == SignalsFor(history, t)
                         IN  /\ strategySignals' = strategySignals \o signals
                             /\ busEvents' = [busEvents EXCEPT
                                                 !["strategy.signal"] = @ + Len(signals)]
        /\ UNCHANGED <<storeVars, botVars, signalsSent, closeSignals, received, clock,
                       ticksSent, inflight, buffers, candleBuffer, pendingSaves, flush,
                       price_data, writeCount, tickLog, candleBufferMu, loopVars>>

(***************************************************************************)
(* Shutdown: the cancellation token and the loops that watch it            *)
(***************************************************************************)
\* what a step of the loops leaves alone
loopFrame == <<storeVars, botVars, envVars, stratVars, clock, buffers, candleBuffer,
               pendingSaves, flush, price_data, writeCount, candleBufferMu>>

\* the ticker of a loop delivers its tick while the loop waits at the select; the
\* body of a loop is shorter than the period of its ticker, and a loop woken by
\* the cancellation runs before the next tick is due
TickerFires(l) ==
    /\ ~shutdown.cancelled
    /\ shutdown.pc[l] = "select"
    /\ ~shutdown.ticker[l]
    /\ shutdown' = [shutdown EXCEPT !.ticker[l] = TRUE]
    /\ UNCHANGED <<loopFrame, ticksSent, inflight, tickLog>>

\* select { case <-ticker.C: ... }: the loop takes the tick and runs its body
\* (flushCandleBuffers, detectGaps, CheckOpenTrades); when ctx.Done() is ready as
\* well the select may still choose this case
SelectTicker(l) ==
    /\ shutdown.pc[l] = "select"
    /\ shutdown.ticker[l]
    /\ shutdown' = [shutdown EXCEPT !.pc[l] = "body", !.ticker[l] = FALSE,
                                    !.after[l] = IF shutdown.cancelled THEN @ + 1 ELSE @]
    /\ UNCHANGED <<loopFrame, ticksSent, inflight, tickLog>>

\* the body returns (its statements carry ctx) and the loop is at the select again
BodyReturns(l) ==
    /\ shutdown.pc[l] = "body"
    /\ shutdown' = [shutdown EXCEPT !.pc[l] = "select"]
    /\ UNCHANGED <<loopFrame, ticksSent, inflight, tickLog>>

\* select { case <-ctx.Done(): return }
SelectDone(l) ==
    /\ shutdown.cancelled
    /\ shutdown.pc[l] = "select"
    /\ shutdown' = [shutdown EXCEPT !.pc[l] = "returned"]
    /\ UNCHANGED <<loopFrame, ticksSent, inflight, tickLog>>

\* listenWebSocket whose select falls to the default case whatever ctx.Done() says
WsSelectDefaultOnly ==
    /\ shutdown.pc["ws"] = "select"
    /\ shutdown' = [shutdown EXCEPT !.pc["ws"] = "read",
                                    !.after["ws"] = IF shutdown.cancelled THEN @ + 1 ELSE @]
    /\ UNCHANGED <<loopFrame, ticksSent, inflight, tickLog>>

\* listenWebSocket: select { case <-ctx.Done(): return; default: ReadJSON ... };
\* the default case runs only while ctx.Done() is not ready
WsSelect ==
    /\ shutdown.pc["ws"] = "select"
    /\ shutdown' = IF shutdown.cancelled
                   THEN [shutdown EXCEPT !.pc["ws"] = "returned"]
                   ELSE [shutdown EXCEPT !.pc["ws"] = "read"]
    /\ UNCHANGED <<loopFrame, ticksSent, inflight, tickLog>>

\* ReadJSON returns a ticker message of the open connection: processTicker
WsReadTicker(symbol, price) ==
    /\ shutdown.pc["ws"] = "read"
    /\ ~shutdown.wsClosed
    /\ Emitted(symbol, price, 0)
    /\ shutdown' = [shutdown EXCEPT !.pc["ws"] = "select"]
    /\ UNCHANGED loopFrame

\* ReadJSON returns an error, which it does on a closed connection and may do on
\* an open one: the loop logs it and sleeps five seconds
WsReadError ==
    /\ shutdown.pc["ws"] = "read"
    /\ shutdown' = [shutdown EXCEPT !.pc["ws"] = "sleep"]
    /\ UNCHANGED <<loopFrame, ticksSent, inflight, tickLog>>

\* time.Sleep(5 * time.Second) ends: continue
WsSleepEnds ==
    /\ shutdown.pc["ws"] = "sleep"
    /\ shutdown' = [shutdown EXCEPT !.pc["ws"] = "select"]
    /\ UNCHANGED <<loopFrame, ticksSent, inflight, tickLog>>

\* main after the interrupt signal: cancel()
Cancel ==
    /\ ~shutdown.cancelled
    /\ shutdown' = [shutdown EXCEPT !.cancelled = TRUE]
    /\ UNCHANGED <<loopFrame, ticksSent, inflight, tickLog>>

\* main, the statement after cancel(): exch.Close() closes the WebSocket
CloseExchange ==
    /\ shutdown.cancelled
    /\ ~shutdown.wsClosed
    /\ shutdown' = [shutdown EXCEPT !.wsClosed = TRUE]
    /\ UNCHANGED <<loopFrame, ticksSent, inflight, tickLog>>

NextShutdown ==
    \/ \E l \in TickerLoops : TickerFires(l)
    \/ \E l \in TickerLoops : SelectTicker(l)
    \/ \E l \in TickerLoops : BodyReturns(l)
    \/ \E l \in TickerLoops : SelectDone(l)
    \/ WsSelect
    \/ \E price \in {CHOOSE p \in TickPrices : TRUE} : WsReadTicker(Symbol, price)
    \/ WsReadError
    \/ WsSleepEnds
    \/ Cancel
    \/ CloseExchange

\* every goroutine keeps running, a goroutine at a select whose ctx.Done() is ready
\* runs it, the sleep ends, and main goes on from cancel() to exch.Close(); no
\* message need arrive and no read need fail while the connection is open
FairShutdown ==
    /\ \A l \in TickerLoops : WF_vars(BodyReturns(l))
    /\ \A l \in TickerLoops : WF_vars(SelectDone(l) \/ SelectTicker(l))
    /\ WF_vars(WsSelect)
    /\ WF_vars(shutdown.wsClosed /\ WsReadError)
    /\ WF_vars(WsSleepEnds)
    /\ WF_vars(CloseExchange)

SpecShutdown == Init /\ [][NextShutdown]_vars /\ FairShutdown

(***************************************************************************)
(* The trading bot                                                         *)
(***************************************************************************)
KillSwitchSteps ==
    \/ \E t \in Threads : EnableKillSwitchPersist(t)
    \/ \E t \in Threads : EnableKillSwitchCancel(t)
    \/ \E t \in Threads : EnableKillSwitchReturn(t)

OrderSteps ==
    \/ \E o \in 1..Len(exec), r \in ExchangeResponses \cup {ExchangeError} :
          ExecuteOrder(o, r)
    \/ \E o \in 1..Len(exec) : CloseTrade(o)

ConsumerSteps(b) ==
    \/ \E inp \in SignalInputs : ValidateTradeSignal(b, inp)
    \/ ValidateDailyLossReject(b)
    \/ PlaceOrderCheck(b)
    \/ PlaceOrderInsert(b)

\* one trading bot subscribed to strategy.signal, and an operator calling the
\* kill switch of its risk gate
Next ==
    \/ \E b \in Consumers : ConsumerSteps(b)
    \/ KillSwitchSteps
    \/ \E b \in Consumers : AdminEnableKillSwitch(b)
    \/ \E b \in Consumers : DisableKillSwitch(b)
    \/ OrderSteps

Spec == Init /\ [][Next]_vars

\* two trading bots in the queue group "trading-bot"
NextQueueGroup ==
    \/ \E b \in Bots : ConsumerSteps(b)
    \/ KillSwitchSteps
    \/ OrderSteps

SpecQueueGroup == Init /\ [][NextQueueGroup]_vars

\* two trading bots on the bus, with the market-data service publishing the price
\* updates in the order of the ticks
NextBus ==
    \/ \E b \in Bots : ConsumerSteps(b)
    \/ KillSwitchSteps
    \/ OrderSteps
    \/ \E price \in {CHOOSE p \in TickPrices : TRUE} : EmitTick(Symbol, price, 0)
    \/ \E update \in inflight : NextInOrder(update) /\ addToCandleBuffer(update)

SpecBus == Init /\ [][NextBus]_vars

\* what CoinbaseExchange.PlaceOrder returns without an error: the status that
\* parseOrderStatus reads from the answer and the fill fees; AverageFillPrice is
\* never set
CoinbaseResponses ==
    { [err |-> FALSE, status |-> s, average_fill_price |-> NULL, fees |-> f] :
        s \in {OrderStatusFilled, OrderStatusOpen, OrderStatusCancelled}, f \in FeeValues }

\* one trading bot configured with the Coinbase exchange; no trade row comes to
\* exist for closeTrade to select, and with no closed trade there is no loss for
\* checkDailyLossLimit to find
NextCoinbase ==
    \/ \E b \in Consumers, inp \in SignalInputs : ValidateTradeSignal(b, inp)
    \/ \E b \in Consumers : PlaceOrderCheck(b)
    \/ \E b \in Consumers : PlaceOrderInsert(b)
    \/ \E o \in 1..Len(exec), r \in CoinbaseResponses \cup {ExchangeError} :
          ExecuteOrder(o, r)

SpecCoinbase == Init /\ [][NextCoinbase]_vars

\* PaperExchange.balances of the base currency: the entry exists once a BUY was
\* filled, and holds what the filled BUYs added and the filled SELLs took off
PaperFilled(side) ==
    {o \in 1..Len(exec) : /\ orders[o].side = side
                          /\ ~exec[o].resp.err
                          /\ exec[o].resp.status = OrderStatusFilled}

RECURSIVE PaperQuantity(_)
PaperQuantity(os) ==
    IF os = {} THEN 0
    ELSE LET o == CHOOSE x \in os : TRUE
         IN  orders[o].quantity + PaperQuantity(os \ {o})

PaperBaseBalance == PaperQuantity(PaperFilled("BUY")) - PaperQuantity(PaperFilled("SELL"))

\* PaperExchange.PlaceOrder: an error when no price is known or the balance does
\* not cover the order, otherwise FILLED at the execution price.  The USD balance
\* covers every BUY the risk gate lets through.
PaperExchangeResponses(o) ==
    IF orders[o].side = "SELL" /\ PaperBaseBalance < orders[o].quantity
    THEN {ExchangeError}
    ELSE {ExchangeError} \cup {r \in ExchangeResponses : r.status = OrderStatusFilled}

\* PaperExchange.PlaceOrder of a SELL before any BUY was filled: balances has no
\* entry of the base currency, and reading its Available faults in the goroutine
PaperSellFaults(o) ==
    /\ o \in 1..Len(exec)
    /\ exec[o].pc = "dispatch"
    /\ orders[o].side = "SELL"
    /\ PaperFilled("BUY") = {}
    /\ exec' = [exec EXCEPT ![o].pc = "panic"]
    /\ UNCHANGED <<mdVars, orders, trades, system_config, risk_events, ksVars, pc, cur,
                   frame, lastValidate, lastPlace, signalsSent, closeSignals, received,
                   busEvents>>

\* the order goroutines of a bot that trades on the paper exchange
PaperOrderSteps ==
    \/ \E o \in 1..Len(exec) :
          /\ exec[o].pc = "dispatch"
          /\ orders[o].side = "SELL" => PaperFilled("BUY") # {}
          /\ \E r \in PaperExchangeResponses(o) : ExecuteOrder(o, r)
    \/ \E o \in 1..Len(exec) : PaperSellFaults(o)
    \/ \E o \in 1..Len(exec) : CloseTrade(o)

\* signals as any publisher on strategy.signal may send them: a BUY and a SELL of
\* quantity zero, and a BUY whose indicators carry no price (read as 0)
UncheckedInputs ==
    { [side |-> "BUY",  quantity |-> 0, stop_loss_price |-> 98, price |-> 100],
      [side |-> "SELL", quantity |-> 0, stop_loss_price |-> 98, price |-> 100],
      [side |-> "BUY",  quantity |-> 1, stop_loss_price |-> 98, price |-> 0] }

\* one trading bot with the paper exchange, fed with those signals
NextUnchecked ==
    \/ \E b \in Consumers, inp \in UncheckedInputs : ValidateTradeSignal(b, inp)
    \/ \E b \in Consumers : PlaceOrderCheck(b)
    \/ \E b \in Consumers : PlaceOrderInsert(b)
    \/ PaperOrderSteps

SpecUnchecked == Init /\ [][NextUnchecked]_vars

\* a BUY of two units and two SELL signals of one unit that differ in price, so
\* that each SELL has a client_order_id of its own and the balance covers both
TwoSellInputs ==
    { [side |-> "BUY",  quantity |-> 2, stop_loss_price |-> 49, price |-> 50],
      [side |-> "SELL", quantity |-> 1, stop_loss_price |-> 98, price |-> 100],
      [side |-> "SELL", quantity |-> 1, stop_loss_price |-> 49, price |-> 50] }

\* one trading bot with the paper exchange, fed with those signals
NextTwoSells ==
    \/ \E b \in Consumers, inp \in TwoSellInputs : ValidateTradeSignal(b, inp)
    \/ \E b \in Consumers : PlaceOrderCheck(b)
    \/ \E b \in Consumers : PlaceOrderInsert(b)
    \/ PaperOrderSteps

SpecTwoSells == Init /\ [][NextTwoSells]_vars

(***************************************************************************)
(* The API gateway and process restarts                                    *)
(***************************************************************************)
\* api-gateway enableKillSwitch / disableKillSwitch: the record is written by the
\* gateway process itself; no event is published and no risk gate is called
ApiSetKillSwitch(enabled) ==
    /\ \E ok \in DbOutcomes :
          system_config' = IF ok THEN [enabled |-> enabled] ELSE system_config
    /\ UNCHANGED <<mdVars, orders, trades, risk_events, botVars, envVars>>

\* the trading-bot process of b is stopped and started again: its goroutines are
\* gone and main builds its components anew (NewRiskManager: enabled = false)
RestartTradingBot(b) ==
    /\ pc[b] = "idle"
    /\ killSwitch' = [killSwitch EXCEPT ![b] = [enabled |-> FALSE]]
    /\ ksRequested' = [ksRequested EXCEPT ![b] = FALSE]
    /\ exec' = [o \in 1..Len(exec) |->
                   IF exec[o].pc = "done" THEN exec[o]
                   ELSE [exec[o] EXCEPT !.pc = "killed"]]
    /\ UNCHANGED <<mdVars, storeVars, pc, cur, frame, lastValidate, lastPlace, envVars>>

\* time passes in the trading-bot process: a minute (at most MaxClock of them in a
\* row), or the maximum hold time
PassTime(minutes) ==
    /\ clock + minutes <= MaxHoldTimeHours * 60 + MaxClock
    /\ minutes = 1 => clock % (MaxHoldTimeHours * 60) < MaxClock
    /\ clock' = clock + minutes
    /\ UNCHANGED <<tradingVars, candleBufferMu, tickLog, ticksSent, inflight, buffers, candleBuffer,
                   pendingSaves, flush, price_data, writeCount>>

\* oppositeOrderSide
oppositeOrderSide(tradeSide) == IF tradeSide = "LONG" THEN "SELL" ELSE "BUY"

\* the TradeSignalEvent CheckOpenTrades builds for a trade: the fields it does not
\* set keep their zero values
closeSignal(trade) ==
    [strategy_id |-> trade.strategy_id,
     symbol |-> trade.symbol,
     side |-> oppositeOrderSide(trade.side),
     type |-> "MARKET",
     quantity |-> trade.quantity,
     stop_loss_price |-> 0,
     reason |-> ""]

\* holdDuration > maxHoldDuration, in minutes
ExceededHoldTime(trade) == clock - trade.entry_time > MaxHoldTimeHours * 60

RECURSIVE CloseSignalsOf(_)
CloseSignalsOf(ts) ==
    IF ts = <<>> THEN <<>>
    ELSE IF Head(ts).exit_time = NULL /\ ExceededHoldTime(Head(ts))
         THEN <<closeSignal(Head(ts))>> \o CloseSignalsOf(Tail(ts))
         ELSE CloseSignalsOf(Tail(ts))

\* CheckOpenTrades, run by the risk monitor every 30 seconds: for each open trade
\* held longer than the maximum, a close signal and a MAX_HOLD_TIME risk event
CheckOpenTrades(b) ==
    /\ pc[b] # "crashed"
    /\ Len(closeSignals) < MaxSignals
    /\ LET new == CloseSignalsOf(trades)
       IN  /\ closeSignals' = closeSignals \o new
           /\ risk_events' = [risk_events EXCEPT !["MAX_HOLD_TIME"] = @ + Len(new)]
           /\ busEvents' = [busEvents EXCEPT !["strategy.signal"] = @ + Len(new),
                                             !["risk.violation"] = @ + Len(new)]
    /\ UNCHANGED <<mdVars, orders, trades, system_config, botVars, signalsSent, received>>

\* one trading bot with its risk monitor, while time passes
NextRiskMonitor ==
    \/ \E b \in Consumers : ConsumerSteps(b)
    \/ KillSwitchSteps
    \/ OrderSteps
    \/ \E minutes \in {1, MaxHoldTimeHours * 60} : PassTime(minutes)
    \/ \E b \in Consumers : CheckOpenTrades(b)

SpecRiskMonitor == Init /\ [][NextRiskMonitor]_vars

\* the inputs of a round trip: the BUY signal, what the exchange answered to the
\* BUY and what it may answer to the SELL
PnlBuyInputs ==
    { [side |-> "BUY", quantity |-> 1, stop_loss_price |-> 98, price |-> 100],
      [side |-> "BUY", quantity |-> 2, stop_loss_price |-> 49, price |-> 50] }
PnlSellInput == [side |-> "SELL", quantity |-> 1, stop_loss_price |-> 98, price |-> 100]
PnlPrices == {100, 300, 400}
PnlFees == {0, 1}
PnlResponses ==
    { [err |-> FALSE, status |-> OrderStatusFilled,
       average_fill_price |-> {p}, fees |-> f] : p \in PnlPrices, f \in PnlFees }
    \cup
    { [err |-> FALSE, status |-> OrderStatusOpen, average_fill_price |-> NULL, fees |-> 0],
      ExchangeError }

SignalOf(n, inp) ==
    [id |-> n, strategy_id |-> StrategyID, symbol |-> Symbol, side |-> inp.side,
     quantity |-> inp.quantity, stop_loss_price |-> inp.stop_loss_price,
     price |-> inp.price]

\* the trading bot after a BUY was filled and its trade opened, with the order of
\* a SELL signal that was validated before the fill inserted and awaiting dispatch
InitPnl ==
    \E buy \in PnlBuyInputs, entryPrice \in PnlPrices, entryFees \in PnlFees :
        LET entry == updateOrderStatus(<<NewOrderRow(SignalOf(1, buy))>>, 1,
                                       OrderStatusFilled, ExchangeOrderID, buy.quantity,
                                       {entryPrice}, entryFees)[1]
        IN
        /\ clock = 0
        /\ signalsSent = 2
        /\ orders = <<entry, NewOrderRow(SignalOf(2, PnlSellInput))>>
        /\ trades = <<NewTradeRow(1, entry)>>
        /\ exec = << [pc |-> "done", signal |-> SignalOf(1, buy), trade |-> 0, calls |-> 1,
                      resp |-> [err |-> FALSE, status |-> OrderStatusFilled,
                                exchange_order_id |-> ExchangeOrderID,
                                filled_quantity |-> buy.quantity,
                                average_fill_price |-> {entryPrice}, fees |-> entryFees]],
                     [pc |-> "dispatch", signal |-> SignalOf(2, PnlSellInput),
                      trade |-> 0, calls |-> 0, resp |-> NoResponse] >>
        /\ system_config = [enabled |-> FALSE]
        /\ risk_events = [t \in RiskEventTypes |-> 0]
        /\ busEvents = [s \in Subjects |->
                           IF s \in {"order.placed", "trade.opened", "order.filled"}
                           THEN 1 ELSE 0]
        /\ closeSignals = <<>>
        /\ received = [b \in Bots |-> [s \in SubscribedSubjects |->
                           IF b = "bot1" /\ s = "strategy.signal" THEN 2 ELSE 0]]
        /\ killSwitch = [b \in Bots |-> [enabled |-> FALSE]]
        /\ ksRequested = [b \in Bots |-> FALSE]
        /\ pc = [t \in Threads |-> "idle"]
        /\ cur = [b \in Bots |-> NoSignal]
        /\ frame = [t \in Threads |-> NoFrame]
        /\ lastValidate = [bot |-> "bot1", result |-> "ok", kind |-> "none"]
        /\ lastPlace = [bot |-> "bot1", result |-> "ok_inserted"]
        /\ ticksSent = 0
        /\ inflight = {}
        /\ buffers = <<>>
        /\ candleBuffer = [s \in Symbols |-> 0]
        /\ pendingSaves = {}
        /\ flush = [pc |-> "idle", ptr |-> 0, snap |-> NoCandle]
        /\ price_data = <<>>
        /\ writeCount = [m \in 0..MaxClock |-> 0]
        /\ tickLog = <<>>
        /\ candleBufferMu = {}
        /\ priceSub = [b \in Bots |-> NoSubscription]
        /\ mrs = [b \in Bots |-> NewMeanReversionStrategy]
        /\ strategySignals = <<>>
        /\ shutdown = Running

\* the executeOrder goroutine of the SELL order, over the answers of the exchange
NextPnl ==
    \/ \E o \in 1..Len(exec), r \in PnlResponses : ExecuteOrder(o, r)
    \/ \E o \in 1..Len(exec) : CloseTrade(o)

SpecPnl == InitPnl /\ [][NextPnl]_vars

\* the payloads ValidateTradeSignal is called with: entries of the strategy with
\* the position size and the stop-loss at, within and beyond their limits, exits
\* without a stop-loss, and the close signal of CheckOpenTrades, which carries no
\* indicators
ValidateInputs ==
    { [side |-> "BUY",  quantity |-> 1, stop_loss_price |-> 98,  price |-> 100],
      [side |-> "BUY",  quantity |-> 1, stop_loss_price |-> 96,  price |-> 100],
      [side |-> "BUY",  quantity |-> 1, stop_loss_price |-> 95,  price |-> 100],
      [side |-> "BUY",  quantity |-> 1, stop_loss_price |-> 104, price |-> 100],
      [side |-> "BUY",  quantity |-> 1, stop_loss_price |-> 105, price |-> 100],
      [side |-> "BUY",  quantity |-> 2, stop_loss_price |-> 98,  price |-> 100],
      [side |-> "BUY",  quantity |-> 2, stop_loss_price |-> 0,   price |-> 100],
      [side |-> "BUY",  quantity |-> 2, stop_loss_price |-> 90,  price |-> 100],
      [side |-> "SELL", quantity |-> 1, stop_loss_price |-> 0,   price |-> 100],
      [side |-> "SELL", quantity |-> 1, stop_loss_price |-> 0,   price |-> 0] }

\* the strategy's trades when a validation begins: none, one open, one closed at a
\* loss of exactly the daily limit, one closed at a larger loss, and that one
\* beside an open trade
LossStates == {"none", "open", "lost200", "lost300", "lost300open"}

\* a trading bot whose strategy has traded today, with the kill switch of its risk
\* gate off or on
InitValidate ==
    \E loss \in LossStates, ks \in BOOLEAN :
        LET buy == [side |-> "BUY", quantity |-> 1, stop_loss_price |-> 98, price |-> 100]
            filled(n, inp, p) == updateOrderStatus(<<NewOrderRow(SignalOf(n, inp))>>, 1,
                                                   OrderStatusFilled, ExchangeOrderID,
                                                   inp.quantity, {p}, 0)[1]
            entryAt == IF loss = "lost200" THEN 300 ELSE 400
            closed == <<filled(1, buy, entryAt), filled(2, PnlSellInput, 100)>>
        IN
        /\ clock = 0
        /\ signalsSent = 0
        /\ orders = IF loss = "none" THEN <<>>
                    ELSE IF loss = "open" THEN <<filled(1, buy, 100)>>
                    ELSE IF loss = "lost300open"
                         THEN closed \o <<filled(3, [buy EXCEPT !.price = 50], 100)>>
                    ELSE closed
        /\ trades = IF loss = "none" THEN <<>>
                    ELSE IF loss = "open" THEN <<NewTradeRow(1, orders[1])>>
                    ELSE IF loss = "lost300open"
                         THEN <<CloseTradeRow(NewTradeRow(1, orders[1]), 2, 100, 0),
                                NewTradeRow(3, orders[3])>>
                    ELSE <<CloseTradeRow(NewTradeRow(1, orders[1]), 2, 100, 0)>>
        /\ exec = <<>>
        /\ system_config = [enabled |-> ks]
        /\ risk_events = [t \in RiskEventTypes |-> 0]
        /\ busEvents = [s \in Subjects |-> 0]
        /\ closeSignals = <<>>
        /\ received = [b \in Bots |-> [s \in SubscribedSubjects |-> 0]]
        /\ killSwitch = [b \in Bots |-> [enabled |-> ks]]
        /\ ksRequested = [b \in Bots |-> ks]
        /\ pc = [t \in Threads |-> "idle"]
        /\ cur = [b \in Bots |-> NoSignal]
        /\ frame = [t \in Threads |-> NoFrame]
        /\ lastValidate = NoResult
        /\ lastPlace = NoPlace
        /\ ticksSent = 0
        /\ inflight = {}
        /\ buffers = <<>>
        /\ candleBuffer = [s \in Symbols |-> 0]
        /\ pendingSaves = {}
        /\ flush = [pc |-> "idle", ptr |-> 0, snap |-> NoCandle]
        /\ price_data = <<>>
        /\ writeCount = [m \in 0..MaxClock |-> 0]
        /\ tickLog = <<>>
        /\ candleBufferMu = {}
        /\ priceSub = [b \in Bots |-> NoSubscription]
        /\ mrs = [b \in Bots |-> NewMeanReversionStrategy]
        /\ strategySignals = <<>>
        /\ shutdown = Running

\* one trading bot validating the signals it receives and placing the accepted
\* ones; no order is executed meanwhile
NextValidate ==
    \/ \E b \in Consumers, inp \in ValidateInputs : ValidateTradeSignal(b, inp)
    \/ \E b \in Consumers : ValidateDailyLossReject(b)
    \/ \E b \in Consumers : PlaceOrderCheck(b)
    \/ \E b \in Consumers : PlaceOrderInsert(b)
    \/ KillSwitchSteps

SpecValidate == InitValidate /\ [][NextValidate]_vars

\* the prices of the ticks the strategy sees
StrategyPrices == {80, 100, 125}

\* closes of the candles in price_data when the trading bot starts, oldest first
Flat(n) == [i \in 1..n |-> 100]
PreloadCloses ==
    { <<>>,
      <<80>> \o Flat(18),
      Flat(17) \o <<80, 80>>,
      <<80>> \o Flat(98),
      <<80>> \o Flat(99),
      <<80>> \o Flat(100) }

\* the candle of the minute n - i + 1 minutes before the start, with the close given
PreloadedRow(closes, i) ==
    [time |-> i - Len(closes) - 1, exchange |-> ExchangeName, symbol |-> Symbol,
     interval |-> "1m", open |-> closes[i], high |-> closes[i], low |-> closes[i],
     close |-> closes[i], volume |-> TickVolume]

\* the strategy's trades when the trading bot starts: none, one open, one closed
PositionStates == {"none", "open", "closed"}

\* the trading bot about to start, beside a market-data service that has filled
\* price_data; the strategy may hold a LONG trade from an earlier run
InitStrategy ==
    \E closes \in PreloadCloses, position \in PositionStates :
        LET buy == [side |-> "BUY", quantity |-> 2, stop_loss_price |-> 98, price |-> 100]
            entry == updateOrderStatus(<<NewOrderRow(SignalOf(1, buy))>>, 1,
                                       OrderStatusFilled, ExchangeOrderID, buy.quantity,
                                       {100}, 0)[1]
            exit == updateOrderStatus(<<NewOrderRow(SignalOf(2, PnlSellInput))>>, 1,
                                      OrderStatusFilled, ExchangeOrderID,
                                      PnlSellInput.quantity, {100}, 0)[1]
        IN
        /\ clock = 0
        /\ signalsSent = IF position = "none" THEN 0 ELSE IF position = "open" THEN 1 ELSE 2
        /\ orders = IF position = "none" THEN <<>>
                    ELSE IF position = "open" THEN <<entry>> ELSE <<entry, exit>>
        /\ trades = IF position = "none" THEN <<>>
                    ELSE IF position = "open" THEN <<NewTradeRow(1, entry)>>
                    ELSE <<CloseTradeRow(NewTradeRow(1, entry), 2, 100, 0)>>
        /\ exec = <<>>
        /\ system_config = [enabled |-> FALSE]
        /\ risk_events = [t \in RiskEventTypes |-> 0]
        /\ busEvents = [s \in Subjects |-> 0]
        /\ closeSignals = <<>>
        /\ received = [b \in Bots |-> [s \in SubscribedSubjects |-> 0]]
        /\ killSwitch = [b \in Bots |-> [enabled |-> FALSE]]
        /\ ksRequested = [b \in Bots |-> FALSE]
        /\ pc = [t \in Threads |-> "idle"]
        /\ cur = [b \in Bots |-> NoSignal]
        /\ frame = [t \in Threads |-> NoFrame]
        /\ lastValidate = NoResult
        /\ lastPlace = NoPlace
        /\ ticksSent = 0
        /\ inflight = {}
        /\ buffers = <<>>
        /\ candleBuffer = [s \in Symbols |-> 0]
        /\ pendingSaves = {}
        /\ flush = [pc |-> "idle", ptr |-> 0, snap |-> NoCandle]
        /\ price_data = [i \in 1..Len(closes) |-> PreloadedRow(closes, i)]
        /\ writeCount = [m \in 0..MaxClock |-> 0]
        /\ tickLog = <<>>
        /\ candleBufferMu = {}
        /\ priceSub = [b \in Bots |-> NoSubscription]
        /\ mrs = [b \in Bots |-> NewMeanReversionStrategy]
        /\ strategySignals = <<>>
        /\ shutdown = Running

\* the strategy of one trading bot: it starts, the market-data service handles the
\* ticks of two symbols in the order of their emission, and the subscription runs
\* OnPriceUpdate on each event
NextStrategy ==
    \/ \E b \in Consumers : StartStrategy(b, DbOutcomes)
    \/ \E price \in StrategyPrices : EmitTick(Symbol, price, 0)
    \/ \E price \in {CHOOSE p \in StrategyPrices : TRUE} : EmitTick(OtherSymbol, price, 0)
    \/ \E update \in inflight : NextInOrder(update) /\ addToCandleBuffer(update)
    \/ \E b \in Consumers : StartPriceCallback(b)
    \/ \E b \in Consumers : OnPriceUpdate(b)

SpecStrategy == InitStrategy /\ [][NextStrategy]_vars

\* the TradeSignalEvent payloads published so far by the strategy and by
\* CheckOpenTrades, as the strategy.signal callback reads them: the close signal
\* of CheckOpenTrades carries no indicators, so its price reads as 0
PublishedSignalInputs ==
    [i \in 1..Len(strategySignals) |->
        [side |-> strategySignals[i].Side,
         quantity |-> strategySignals[i].Quantity \div QuantityScale,
         stop_loss_price |-> strategySignals[i].StopLossPrice,
         price |-> strategySignals[i].Indicators.price]]
    \o
    [i \in 1..Len(closeSignals) |->
        [side |-> closeSignals[i].side, quantity |-> closeSignals[i].quantity,
         stop_loss_price |-> closeSignals[i].stop_loss_price,
         price |-> 0]]

\* the published signals the bus has not handed to the consumer yet.  The signals
\* of other publishers below are all accepted, so each risk event of a rule is
\* the rejection of a published signal.
UndeliveredSignals ==
    Len(PublishedSignalInputs)
      - (risk_events["MAX_POSITIONS"] + risk_events["POSITION_SIZE"]
         + risk_events["STOP_LOSS_MISSING"] + risk_events["STOP_LOSS_TOO_WIDE"])

\* the bus hands the next published signal to the consumer, each signal once
ConsumePublishedSignal(b) ==
    /\ UndeliveredSignals > 0
    /\ \E inp \in {PublishedSignalInputs[Len(PublishedSignalInputs) - UndeliveredSignals + 1]} :
          ValidateTradeSignal(b, inp)

\* no price update is on its way: ticks arrive further apart than they are handled
PriceUpdatesHandled ==
    /\ inflight = {}
    /\ \A b \in Consumers : priceSub[b].pending = <<>> /\ priceSub[b].running = {}

\* the signals that may still be delivered within MaxSignals, beyond those already
\* published and the one the price update on its way may publish
DeliveryBudget ==
    MaxSignals - signalsSent - UndeliveredSignals - (IF PriceUpdatesHandled THEN 0 ELSE 1)

\* a signal of another publisher that the risk gate accepts reaches the consumer,
\* before the strategy or the risk monitor has published one
ExternalSignal(b) ==
    /\ strategySignals = <<>>
    /\ closeSignals = <<>>
    /\ DeliveryBudget > 0
    /\ \E inp \in {i \in SignalInputs : i.price = 100} :
          /\ RuleVerdict(b, [strategy_id |-> StrategyID, side |-> inp.side,
                              quantity |-> inp.quantity, price |-> inp.price,
                              stop_loss_price |-> inp.stop_loss_price]) = "ok"
          /\ ValidateTradeSignal(b, inp)

\* the tick that crosses the SMA, and the answer of an exchange that fills orders
ExitTickPrices == {125}
FillingResponses ==
    { [err |-> FALSE, status |-> OrderStatusFilled, average_fill_price |-> {100}, fees |-> 1] }

\* main has loaded the price history and subscribed the strategy, which it does
\* before it subscribes the consumer and starts the risk monitor
StrategyStarted == \A b \in Consumers : priceSub[b].active

\* one trading bot as a whole: its strategy on the price updates, its risk monitor
\* once the hold time has passed, its strategy.signal consumer and its order
\* goroutines.  A tick is emitted and the risk monitor runs only while what they
\* publish can still be delivered; the ticks come before the risk monitor finds
\* the trade overdue, so that PublishedSignalInputs is in the order of publication.
NextExit ==
    \/ \E b \in Consumers : StartStrategy(b, {TRUE})
    \/ \E price \in ExitTickPrices :
          /\ StrategyStarted /\ PriceUpdatesHandled /\ DeliveryBudget > 0
          /\ closeSignals = <<>>
          /\ EmitTick(Symbol, price, 0)
    \/ \E update \in inflight :
          StrategyStarted /\ NextInOrder(update) /\ addToCandleBuffer(update)
    \/ \E b \in Consumers : StrategyStarted /\ StartPriceCallback(b)
    \/ \E b \in Consumers : StrategyStarted /\ OnPriceUpdate(b)
    \/ \E minutes \in {MaxHoldTimeHours * 60 + 1} : StrategyStarted /\ PassTime(minutes)
    \/ \E b \in Consumers :
          /\ StrategyStarted /\ PriceUpdatesHandled /\ DeliveryBudget > 0
          /\ closeSignals = <<>>
          /\ CheckOpenTrades(b)
    \/ \E b \in Consumers : StrategyStarted /\ ExternalSignal(b)
    \/ \E b \in Consumers : StrategyStarted /\ ConsumePublishedSignal(b)
    \/ \E b \in Consumers : StrategyStarted /\ PlaceOrderCheck(b)
    \/ \E b \in Consumers : StrategyStarted /\ PlaceOrderInsert(b)
    \/ \E o \in 1..Len(exec), r \in FillingResponses : StrategyStarted /\ ExecuteOrder(o, r)
    \/ \E o \in 1..Len(exec) : StrategyStarted /\ CloseTrade(o)

\* the bus delivers what was published, the callback and the order goroutines run
\* on, and the exchange answers
FairExit ==
    /\ \A b \in Consumers : WF_vars(StrategyStarted /\ ConsumePublishedSignal(b))
    /\ \A b \in Consumers : WF_vars(StrategyStarted /\ PlaceOrderCheck(b))
    /\ \A b \in Consumers : WF_vars(StrategyStarted /\ PlaceOrderInsert(b))
    /\ WF_vars(\E o \in 1..Len(exec), r \in FillingResponses :
                  StrategyStarted /\ ExecuteOrder(o, r))
    /\ WF_vars(\E o \in 1..Len(exec) : StrategyStarted /\ CloseTrade(o))

\* price_data holds nineteen candles, so that the first tick completes the
\* twenty prices the indicators need
InitExit == InitStrategy /\ Len(price_data) = bbPeriod - 1

SpecExit == InitExit /\ [][NextExit]_vars /\ FairExit

\* the seconds within the minute at which ticks are stamped
TickSeconds == {0, 30}

\* the market-data service fed with ticks of two symbols at any second (one price
\* for the second symbol), the callbacks running in any order; the roll-over saves
\* are written
NextTwoSymbols ==
    \/ AdvanceClock
    \/ \E price \in TickPrices, second \in TickSeconds : EmitTick(Symbol, price, second)
    \/ \E price \in {CHOOSE p \in TickPrices : TRUE}, second \in TickSeconds :
          EmitTick(OtherSymbol, price, second)
    \/ \E update \in inflight : addToCandleBuffer(update)
    \/ \E ptr \in pendingSaves : saveCandle(ptr, {TRUE})

SpecTwoSymbols == Init /\ [][NextTwoSymbols]_vars

\* the tasks that touch the candle buffer and the price history: the tick callbacks
\* started with `go`, the periodic flush, and the price subscriptions of two
\* trading bots
NextTasks ==
    \/ \E b \in Bots : StartStrategy(b, {TRUE})
    \/ \E price \in {CHOOSE p \in TickPrices : TRUE} : EmitTick(Symbol, price, 0)
    \/ \E update \in inflight : LockCandleBuffer(update)
    \/ \E update \in inflight : addToCandleBuffer(update)
    \/ FlushCollect
    \/ FlushRead
    \/ FlushWrite({TRUE})
    \/ \E b \in Bots : StartPriceCallback(b)
    \/ \E b \in Bots : OnPriceUpdate(b)

SpecTasks == Init /\ [][NextTasks]_vars

\* one trading bot, the API gateway writing the kill-switch record, and restarts of
\* the bot
NextGateway ==
    \/ \E b \in Consumers : ConsumerSteps(b)
    \/ KillSwitchSteps
    \/ OrderSteps
    \/ \E enabled \in BOOLEAN : ApiSetKillSwitch(enabled)
    \/ \E b \in Consumers : RestartTradingBot(b)

SpecGateway == Init /\ [][NextGateway]_vars

(***************************************************************************)
(* Properties: order placement                                             *)
(***************************************************************************)
\* the fields of a signal on which two PlaceOrder calls agree
SignalKey(signal) ==
    <<signal.strategy_id, signal.symbol, signal.side, signal.quantity, signal.price>>

\* the order rows inserted for signals with this key (orders[i] was inserted for
\* exec[i].signal)
RowsOfKey(os, ex, key) == {i \in 1..Len(os) : SignalKey(ex[i].signal) = key}

\* a PlaceOrder call of bot b returns in this step
PlaceOrderReturns(b) ==
    pc[b] \in {"place_check", "place_insert"} /\ pc'[b] = "idle"

DuplicatePlaceOrderSucceeds ==
    [][ \A b \in Bots :
            (PlaceOrderReturns(b)
                /\ RowsWithClientOrderID(generateClientOrderID(cur[b])) # {})
            => /\ lastPlace' = [bot |-> b, result |-> "ok_existing"]
               /\ orders' = orders
               /\ exec' = exec
      ]_vars

(***************************************************************************)
(* Properties: kill switch                                                 *)
(***************************************************************************)
\* C3: once the first statement of EnableKillSwitch has run on a risk gate and until
\* DisableKillSwitch runs on it, a ValidateTradeSignal call on that gate neither
\* accepts the signal nor goes on to any further rule: it returns reject.
KillSwitchRejects ==
    [][ \A b \in Bots :
            (ksRequested[b] /\ pc[b] = "idle")
            => /\ pc'[b] = "idle"
               /\ (lastValidate' # lastValidate /\ lastValidate'.bot = b)
                      => lastValidate'.result = "reject"
      ]_vars

\* a signal was rejected by a gate whose kill switch had been enabled, although the
\* update of system_config had failed
WitnessKillSwitchRejects ==
    \E b \in Bots : /\ ksRequested[b]
                    /\ ~system_config.enabled
                    /\ lastValidate = Rejected(b, "KILL_SWITCH")

NumOpen(os) == Cardinality({i \in 1..Len(os) : os[i].status = OrderStatusOpen})

\* C4: in a step taken while the kill switch is enabled no order changes its status
\* to OPEN or FILLED and the number of OPEN orders does not increase.
NoFillWhileKillSwitch ==
    [][ (system_config.enabled /\ system_config'.enabled)
        => /\ \A i \in 1..Len(orders) :
                 orders'[i].status \in {OrderStatusOpen, OrderStatusFilled}
                     => orders'[i].status = orders[i].status
           /\ NumOpen(orders') <= NumOpen(orders)
      ]_vars

\* EnableKillSwitch, called by thread t, returns nil in this step
EnableKillSwitchReturnsNil(t) ==
    frame[t].result = "running" /\ frame'[t].result = "ok"

\* C5: when EnableKillSwitch returns success, every order that was PENDING or OPEN
\* when it was called is CANCELLED, no order is PENDING or OPEN, and the orders that
\* were FILLED, CANCELLED or FAILED have the status they had.
KillSwitchCancelsAll ==
    [][ \A t \in Threads :
            EnableKillSwitchReturnsNil(t)
            => /\ \A i \in 1..Len(frame[t].before) :
                     IF frame[t].before[i] \in {OrderStatusPending, OrderStatusOpen}
                     THEN orders'[i].status = OrderStatusCancelled
                     ELSE orders'[i].status = frame[t].before[i]
               /\ \A i \in 1..Len(orders') :
                     orders'[i].status \notin {OrderStatusPending, OrderStatusOpen}
      ]_vars

\* C6: an order whose status is FILLED, CANCELLED or FAILED keeps that status.
TerminalStatusFinal ==
    [][ \A i \in 1..Len(orders) :
            orders[i].status \in {OrderStatusFilled, OrderStatusCancelled,
                                  OrderStatusFailed}
            => orders'[i].status = orders[i].status
      ]_vars

(***************************************************************************)
(* Properties: trades                                                      *)
(***************************************************************************)
\* C7: the number of trades of the strategy with exit_time unset is at most
\* max_open_positions.
OpenTradesWithinLimit ==
    Cardinality(OpenTradeIds(StrategyID)) <= MaxOpenPositions

ExitColumns(t) ==
    {t.pnl, t.pnl_percent, t.fees_total, t.hold_duration, t.exit_price, t.exit_reason}

\* C8: a trade with exit_time set has pnl, pnl_percent, fees_total, hold_duration,
\* exit_price and exit_reason set; a trade with exit_time unset has none of them set.
ClosedTradeComplete ==
    \A i \in 1..Len(trades) :
        IF trades[i].exit_time # NULL
        THEN NULL \notin ExitColumns(trades[i])
        ELSE ExitColumns(trades[i]) = {NULL}

\* a trade was closed by closeTrade while another trade is still open
WitnessClosedTradeComplete ==
    /\ \E i \in 1..Len(trades) : trades[i].exit_time # NULL
    /\ \E i \in 1..Len(trades) : trades[i].exit_time = NULL

(***************************************************************************)
(* Properties: candles                                                     *)
(***************************************************************************)
\* C9: price_data holds at most one row for each (time, exchange, symbol, interval).
OneCandlePerMinute ==
    \A i, j \in 1..Len(price_data) :
        CandleKey(price_data[i]) = CandleKey(price_data[j]) => i = j

\* a minute was written twice, by a roll-over write or a flush, and has one row
WitnessOneCandlePerMinute ==
    \E m \in 0..MaxClock :
        /\ writeCount[m] = 2
        /\ Cardinality({i \in 1..Len(price_data) : price_data[i].time = m}) = 1

\* the latest bucket_start persisted for the symbol, -1 when there is none
MaxPersisted(rows) ==
    IF rows = <<>> THEN -1
    ELSE LET times == {rows[i].time : i \in 1..Len(rows)}
         IN  CHOOSE m \in times : \A n \in times : n <= m

\* the rows written by a step
RowsWritten ==
    {i \in 1..Len(price_data') : i > Len(price_data) \/ price_data'[i] # price_data[i]}

\* C10: with ticks emitted at non-decreasing timestamps, a step neither installs a
\* candle buffer nor writes a price_data row whose bucket_start is earlier than the
\* latest bucket_start already persisted.
CandleKeysMonotone ==
    [][ /\ candleBuffer'[Symbol] # candleBuffer[Symbol]
            => buffers'[candleBuffer'[Symbol]].StartTime >= MaxPersisted(price_data)
        /\ \A i \in RowsWritten : price_data'[i].time >= MaxPersisted(price_data)
      ]_vars

\* the ticks of minute m, in emission order
TicksOf(m) == SelectSeq(tickLog, LAMBDA t : t.Symbol = Symbol /\ TruncateMinute(t.Timestamp) = m)

RECURSIVE SumVolume(_)
SumVolume(ts) == IF ts = <<>> THEN 0 ELSE Head(ts).Volume + SumVolume(Tail(ts))

\* the candle of a non-empty sequence of ticks
CandleOf(ts) ==
    LET prices == {ts[i].Price : i \in 1..Len(ts)} IN
    [open |-> ts[1].Price,
     high |-> CHOOSE x \in prices : \A y \in prices : y <= x,
     low |-> CHOOSE x \in prices : \A y \in prices : x <= y,
     close |-> ts[Len(ts)].Price,
     volume |-> SumVolume(ts)]

\* the buffer has rolled from minute m to a later minute and no write is in progress
RolledPast(m) ==
    /\ TicksOf(m) # <<>>
    /\ candleBuffer[Symbol] # 0
    /\ buffers[candleBuffer[Symbol]].StartTime > m
    /\ \A update \in inflight : TruncateMinute(update.Timestamp) # m
    /\ pendingSaves = {}
    /\ flush.pc = "idle"

\* C11: with tick callbacks run in emission order and every write accepted, once the
\* buffer has rolled past minute M and no write is in progress, price_data holds a
\* row for M with the open, high, low, close and volume of the ticks of M.
RolledCandleComplete ==
    \A m \in 0..MaxClock :
        RolledPast(m)
        => \E i \in 1..Len(price_data) :
              /\ price_data[i].time = m
              /\ [f \in {"open", "high", "low", "close", "volume"} |-> price_data[i][f]]
                     = CandleOf(TicksOf(m))

(***************************************************************************)
(* Properties: risk gate                                                   *)
(***************************************************************************)
\* a ValidateTradeSignal call returns reject in this step
ValidateReturnsReject ==
    \/ signalsSent' = signalsSent + 1 /\ pc' = pc
    \/ \E b \in Bots : pc[b] = "daily_reject" /\ pc'[b] = "idle"

\* C12: a ValidateTradeSignal call that returns reject has inserted a risk_events
\* row and published a risk.violation event.
RejectionLogged ==
    [][ ValidateReturnsReject
        => /\ \E e \in RiskEventTypes : risk_events'[e] = risk_events[e] + 1
           /\ busEvents'["risk.violation"] = busEvents["risk.violation"] + 1
      ]_vars

\* ValidateTradeSignal of bot b, having found the daily loss beyond the limit,
\* returns reject in this step
DailyLossRejectReturns(b) == pc[b] = "daily_reject" /\ pc'[b] = "idle"

\* C13: when ValidateTradeSignal returns reject for the daily loss limit, the kill
\* switch is enabled in the process and in system_config, every order that was
\* PENDING or OPEN when the validation began is CANCELLED, and a risk.kill_switch
\* event with enabled = true has been published.
DailyLossEnablesKillSwitch ==
    [][ \A b \in Bots :
            DailyLossRejectReturns(b)
            => /\ killSwitch'[b].enabled
               /\ system_config'.enabled
               /\ \A i \in 1..Len(frame[b].before) :
                     frame[b].before[i] \in {OrderStatusPending, OrderStatusOpen}
                         => orders'[i].status = OrderStatusCancelled
               /\ busEvents'["risk.kill_switch.enabled"] > 0
      ]_vars

\* C14: while the enabled field of system_config.kill_switch is true, whoever wrote
\* it, a ValidateTradeSignal call on a risk gate returns reject.
StoredKillSwitchRejects ==
    [][ \A b \in Bots :
            (system_config.enabled /\ pc[b] = "idle")
            => /\ pc'[b] = "idle"
               /\ (lastValidate' # lastValidate /\ lastValidate'.bot = b)
                      => lastValidate'.result = "reject"
      ]_vars

\* a DisableKillSwitch call runs in this step
DisableKillSwitchStep ==
    pc[Admin] \in {"enabled", "disabled"} /\ pc'[Admin] # pc[Admin]

RejectReturnedTo(b) ==
    \/ /\ signalsSent' = signalsSent + 1
       /\ lastValidate'.bot = b
       /\ lastValidate'.result = "reject"
       /\ \A c \in Bots : pc'[c] = pc[c] \/ pc'[c] \notin {"ek_persist", "crashed"}
    \/ pc[b] = "daily_reject" /\ pc'[b] # pc[b]

\* C16: when ValidateTradeSignal rejects a signal, the callback ends there: no order
\* row is inserted, no exchange dispatch is started and the callback keeps no signal
\* to place or to retry.
RejectedSignalDropped ==
    [][ \A b \in Bots :
            RejectReturnedTo(b)
            => /\ orders' = orders
               /\ exec' = exec
               /\ pc'[b] = "idle"
               /\ cur'[b] = NoSignal
      ]_vars

\* the second of two signals was rejected for MAX_POSITIONS: one order row, one
\* exchange call, every callback has returned
WitnessRejectedSignalDropped ==
    /\ signalsSent = 2
    /\ lastValidate.result = "reject" /\ lastValidate.kind = "MAX_POSITIONS"
    /\ Len(orders) = 1 /\ exec[1].calls = 1
    /\ \A b \in Bots : pc[b] = "idle"

(***************************************************************************)
(* Properties: risk monitor                                                *)
(***************************************************************************)
\* the open trades held longer than max_hold_hours, in row order
OverdueTrades ==
    SelectSeq(trades, LAMBDA t : t.exit_time = NULL
                                 /\ clock - t.entry_time > MaxHoldTimeHours * 60)

\* the strategy.signal events published in this step
PublishedNow == SubSeq(closeSignals', Len(closeSignals) + 1, Len(closeSignals'))

\* C17: a run of CheckOpenTrades that publishes anything publishes exactly one
\* strategy.signal for each open trade older than max_hold_hours and none for any
\* other trade; the signal's side is the opposite of the trade's side (SELL for LONG),
\* its quantity the trade's quantity and its reason MAX_HOLD_TIME; one risk_events
\* row is written per signal.
MaxHoldTimeSignals ==
    [][ closeSignals' # closeSignals
        => /\ Len(PublishedNow) = Len(OverdueTrades)
           /\ \A i \in 1..Len(PublishedNow) :
                 /\ PublishedNow[i].side
                      = (IF OverdueTrades[i].side = "LONG" THEN "SELL" ELSE "BUY")
                 /\ PublishedNow[i].quantity = OverdueTrades[i].quantity
                 /\ PublishedNow[i].reason = "MAX_HOLD_TIME"
           /\ risk_events'["MAX_HOLD_TIME"]
                 = risk_events["MAX_HOLD_TIME"] + Len(PublishedNow)
      ]_vars

(***************************************************************************)
(* Properties: event bus                                                   *)
(***************************************************************************)
\* the instances whose callback the bus invoked for the subject in this step
ReceivedNow(subject) == {b \in Bots : received'[b][subject] # received[b][subject]}

\* the number of events published so far on a subject the bots subscribe to
PublishedOn(subject) ==
    IF subject = "risk.kill_switch"
    THEN busEvents["risk.kill_switch.enabled"] + busEvents["risk.kill_switch.disabled"]
    ELSE busEvents[subject]

\* C18: each strategy.signal reaches the callback of exactly one trading-bot
\* instance, which is the one that validates it and goes on to PlaceOrder; each
\* price update and each kill-switch event reaches the callback of every instance.
QueueGroupDelivery ==
    [][ /\ signalsSent' = signalsSent + 1
           => \E b \in Bots :
                 /\ ReceivedNow("strategy.signal") = {b}
                 /\ received'[b]["strategy.signal"] = received[b]["strategy.signal"] + 1
                 /\ pc[b] = "idle"
                 /\ \A c \in Bots \ {b} : pc'[c] = pc[c] /\ cur'[c] = cur[c]
                 /\ \/ pc'[b] \in {"place_check", "ek_persist", "crashed"}
                    \/ lastValidate'.bot = b /\ lastValidate'.result = "reject"
        /\ signalsSent' = signalsSent => ReceivedNow("strategy.signal") = {}
        /\ \A subject \in {"market.price.update", "risk.kill_switch"} :
              \A b \in Bots :
                 received'[b][subject] = PublishedOn(subject)'
      ]_vars

\* three signals went to the callbacks of two instances, and both instances got a
\* price update and a kill-switch event
WitnessQueueGroupDelivery ==
    /\ signalsSent = 3
    /\ \A b \in Bots : /\ received[b]["strategy.signal"] > 0
                       /\ received[b]["market.price.update"] > 0
                       /\ received[b]["risk.kill_switch"] > 0

(***************************************************************************)
(* Properties: profit and loss                                             *)
(***************************************************************************)
\* the one value of a column that is set
ValueOf(column) == CHOOSE x \in column : TRUE

\* the LONG trades that a filled SELL order has closed
ClosedLongTrades ==
    {i \in 1..Len(trades) : /\ trades[i].side = "LONG"
                            /\ trades[i].exit_time # NULL
                            /\ trades[i].exit_order_id # NULL}

\* (exit_price - entry_price) * quantity - (entry order fees + exit order fees)
ExpectedPnl(t) ==
    (ValueOf(t.exit_price) - t.entry_price) * t.quantity
        - (orders[t.entry_order_id].fees + orders[ValueOf(t.exit_order_id)].fees)

\* the recorded pnl is the expected one, and 0 for a round trip at one price
\* without fees
PnlRecorded(t) ==
    /\ ValueOf(t.pnl) = ExpectedPnl(t)
    /\ t.exit_price = orders[ValueOf(t.exit_order_id)].average_fill_price
    /\ ( /\ ValueOf(t.exit_price) = t.entry_price
         /\ orders[t.entry_order_id].fees = 0
         /\ orders[ValueOf(t.exit_order_id)].fees = 0 ) => ValueOf(t.pnl) = 0

SellFillsWithoutOpenTrade(o) ==
    /\ exec[o].pc = "dispatch"
    /\ exec'[o].pc # "dispatch"
    /\ orders[o].side = "SELL"
    /\ orders'[o].status = OrderStatusFilled
    /\ \A i \in 1..Len(trades) :
          ~ ( /\ trades[i].strategy_id = orders[o].strategy_id
              /\ trades[i].symbol = orders[o].symbol
              /\ trades[i].exit_time = NULL )

\* C20: when a SELL order fills and no open trade exists for its strategy and
\* symbol, a risk event is recorded for it, no trade row is changed, and the
\* consumers go on as they were.
CloseWithoutTradeRecorded ==
    [][ \A o \in 1..Len(exec) :
            SellFillsWithoutOpenTrade(o)
            => /\ \E t \in RiskEventTypes : risk_events'[t] = risk_events[t] + 1
               /\ trades' = trades
               /\ \A b \in Bots : pc'[b] = pc[b]
      ]_vars

(***************************************************************************)
(* Properties: candle persistence over time                                *)
(***************************************************************************)
\* the pipeline has aggregated a candle for minute m
Aggregated(m) == \E i \in 1..Len(buffers) : buffers[i].StartTime = m

\* price_data holds a row for minute m
Persisted(m) == \E i \in 1..Len(price_data) : price_data[i].time = m

\* C21: once the database accepts the writes of the periodic flush, every candle the
\* pipeline has aggregated is eventually persisted, also one whose write at the
\* bucket roll-over failed.
FailedWriteRetried ==
    \A m \in 0..MaxClock : Aggregated(m) ~> Persisted(m)

\* the candle buffer of the symbol's last bucket
LastBuffer == buffers[candleBuffer[Symbol]]

\* price_data holds the row of the last bucket, with the buffer's values
LastBucketPersisted ==
    /\ \E i \in 1..Len(price_data) : price_data[i] = CandleRow(LastBuffer)
    /\ \A i \in 1..Len(price_data) :
          CandleKey(price_data[i]) = CandleKey(CandleRow(LastBuffer))
          => price_data[i] = CandleRow(LastBuffer)

\* C22: when the ticks of a symbol have stopped, a later periodic flush persists the
\* buffer of its last bucket: from some time on price_data holds the row of that
\* bucket with the buffer's final open, high, low, close and volume.
LastBucketFlushed ==
    <>[](candleBuffer[Symbol] # 0 => LastBucketPersisted)

\* the ticks have stopped, the last bucket aggregated two of them, and its row
\* holds the buffer's final values
WitnessLastBucketFlushed ==
    /\ ticksSent = MaxTicks /\ inflight = {} /\ pendingSaves = {}
    /\ candleBuffer[Symbol] # 0
    /\ LastBuffer.Volume >= 2 * TickVolume
    /\ LastBuffer.High # LastBuffer.Low
    /\ LastBucketPersisted

(***************************************************************************)
(* C23: at no time do two tasks modify the candle buffer concurrently (the *)
(* tick callbacks are serialised by candleBufferMu), and the price history *)
(* of a strategy is modified by at most one subscriber callback at a time. *)
(***************************************************************************)
\* the tick callbacks inside addToCandleBuffer, between Lock and Unlock
ModifyingCandleBuffer == candleBufferMu

\* the callbacks of bot b's price subscription inside OnPriceUpdate
ModifyingPriceHistory(b) == priceSub[b].running

OneWriterAtATime ==
    /\ Cardinality(ModifyingCandleBuffer) <= 1
    /\ \A b \in Bots : Cardinality(ModifyingPriceHistory(b)) <= 1

\* a tick callback holds the mutex while another one is started and waits, and
\* the price callback of an earlier tick is running
WitnessOneWriterAtATime ==
    /\ \E u1 \in inflight, u2 \in inflight :
          u1 # u2 /\ u1.seq \in ModifyingCandleBuffer
    /\ \E b \in Bots : ModifyingPriceHistory(b) # {}

(***************************************************************************)
(* C24: after the cancellation token is cancelled, the candle-flush loop,  *)
(* the gap-detection loop, the risk-supervision loop and the WebSocket     *)
(* read loop each eventually return, within one iteration of the loop.     *)
(***************************************************************************)
AllLoopsReturned == \A l \in Loops : shutdown.pc[l] = "returned"

CancelledLoopsReturn ==
    /\ [](\A l \in Loops : shutdown.after[l] <= 1)
    /\ (shutdown.cancelled ~> AllLoopsReturned)

\* every loop has returned after a cancellation that found the reader blocked in
\* ReadJSON and a ticker loop with its tick ready, which that loop still served
WitnessCancelledLoopsReturn ==
    /\ AllLoopsReturned
    /\ shutdown.wsClosed
    /\ \E l \in TickerLoops : shutdown.after[l] = 1
    /\ ticksSent > 0

(***************************************************************************)
(* C25: ValidateTradeSignal returns ok exactly when all six rules pass,    *)
(* and when it rejects, the reported kind is that of the first failing     *)
(* rule in the order kill switch, daily loss limit, max open positions,    *)
(* position size (quantity * indicators.price > max_position_size_usd),    *)
(* stop-loss missing (zero), stop-loss too wide (|price - stop_loss| /     *)
(* price * 100 > 2 * stop_loss_percent); a successful validation changes   *)
(* neither the store nor the kill switch.                                  *)
(***************************************************************************)
\* the rules in the order of the claim, each TRUE when it fails; the daily loss is
\* beyond the limit as checkDailyLossLimit compares it
FailingRules(b, inp) ==
    << <<"KILL_SWITCH", killSwitch[b].enabled>>,
       <<"DAILY_LOSS_LIMIT",
         SumPnl(SelectSeq(trades, LAMBDA t : t.strategy_id = StrategyID))
             < -((PortfolioValue * DailyLossLimitPercent) \div 100)>>,
       <<"MAX_POSITIONS",
         Cardinality({t \in 1..Len(trades) : trades[t].exit_time = NULL})
             >= MaxOpenPositions>>,
       <<"POSITION_SIZE", inp.quantity * inp.price > MaxPositionSizeUSD>>,
       <<"STOP_LOSS_MISSING", inp.stop_loss_price = 0>>,
       <<"STOP_LOSS_TOO_WIDE",
         inp.price # 0 /\ Abs(inp.price - inp.stop_loss_price) * 100
                              > 2 * StopLossPercent * inp.price>> >>

FirstFailing(b, inp) ==
    LET rules == FailingRules(b, inp)
        failing == {i \in 1..Len(rules) : rules[i][2]}
    IN  IF failing = {} THEN "ok"
        ELSE rules[CHOOSE i \in failing : \A j \in failing : i <= j][1]

DailyPnl(strategy) == SumPnl(SelectSeq(trades, LAMBDA t : t.strategy_id = strategy))

DailyLossBound == -((PortfolioValue * DailyLossLimitPercent) \div 100)

DailyLossAtBoundRejects ==
    [][ \A b \in Bots :
          /\ \A inp \in ValidateInputs :
                (ValidateTradeSignal(b, inp) /\ ~killSwitch[b].enabled)
                => (pc'[b] = "ek_persist" <=> DailyPnl(StrategyID) <= DailyLossBound)
          /\ (pc[b] = "daily_reject" /\ pc'[b] # "daily_reject")
                => /\ lastValidate' = [bot |-> b, result |-> "reject",
                                       kind |-> "DAILY_LOSS_LIMIT"]
                   /\ killSwitch'[b].enabled
      ]_vars

(***************************************************************************)
(* C27: for every tick, addToCandleBuffer either (a) if the symbol has no  *)
(* buffer or the tick's minute differs from the buffer's bucket_start,     *)
(* issues a write of the existing buffer (if any) and installs a fresh     *)
(* buffer with open = high = low = close = tick price, volume = tick       *)
(* volume and bucket_start = tick time truncated to the minute, or (b)     *)
(* otherwise sets high = max(high, price), low = min(low, price), close =  *)
(* price, volume += tick volume and leaves open and bucket_start           *)
(* unchanged; buffers of other symbols are untouched.                      *)
(***************************************************************************)
Max2(a, b) == IF a > b THEN a ELSE b
Min2(a, b) == IF a < b THEN a ELSE b

\* the buffer of a symbol, NoCandle when it has none
BufferOf(map, bufs, symbol) == IF map[symbol] = 0 THEN NoCandle ELSE bufs[map[symbol]]

\* the minute of a time in seconds
MinuteOf(t) == (t - (t % 60)) \div 60

TickHandledByCase ==
    [][ \A update \in inflight :
          addToCandleBuffer(update)
          => LET old == BufferOf(candleBuffer, buffers, update.Symbol)
                 new == BufferOf(candleBuffer', buffers', update.Symbol)
             IN  /\ IF old = NoCandle \/ old.StartTime # MinuteOf(update.Timestamp)
                    THEN /\ new = [Symbol |-> update.Symbol, Open |-> update.Price,
                                    High |-> update.Price, Low |-> update.Price,
                                    Close |-> update.Price, Volume |-> update.Volume,
                                    StartTime |-> MinuteOf(update.Timestamp)]
                         /\ pendingSaves' = pendingSaves \cup
                                                (IF old = NoCandle THEN {}
                                                 ELSE {candleBuffer[update.Symbol]})
                         /\ old # NoCandle
                               => buffers'[candleBuffer[update.Symbol]] = old
                    ELSE /\ new = [old EXCEPT !.High = Max2(old.High, update.Price),
                                              !.Low = Min2(old.Low, update.Price),
                                              !.Close = update.Price,
                                              !.Volume = old.Volume + update.Volume]
                         /\ pendingSaves' = pendingSaves
                 /\ \A other \in Symbols \ {update.Symbol} :
                       BufferOf(candleBuffer', buffers', other)
                           = BufferOf(candleBuffer, buffers, other)
      ]_vars

\* both symbols hold a buffer, a tick stamped within a minute has been handled,
\* and the buffer of an earlier minute was replaced and handed to saveCandle
WitnessTickHandledByCase ==
    /\ \A symbol \in Symbols : candleBuffer[symbol] # 0
    /\ \E t \in 1..Len(tickLog) : tickLog[t].Timestamp % 60 # 0
    /\ inflight = {}
    /\ Len(buffers) = 3
    /\ Len(price_data) > 0

(***************************************************************************)
(* C28: after any sequence of OnPriceUpdate calls (following a preload of  *)
(* at most N prices), the price history holds the most recent prices of    *)
(* the configured symbol in arrival order and its length never exceeds     *)
(* the capacity N = 100; a tick for any other symbol leaves the history    *)
(* unchanged and publishes no signal.                                      *)
(***************************************************************************)
Capacity == 100

\* the prices of the configured symbol among the events bot b has handled, in the
\* order of their arrival, after the prices of the preload
ArrivedPrices(b) ==
    LET mine == SelectSeq(priceSub[b].handled, LAMBDA e : e.Symbol = Symbol)
    IN  mrs[b].loaded \o [i \in 1..Len(mine) |-> mine[i].Price]

MostRecent(prices, n) ==
    IF Len(prices) <= n THEN prices
    ELSE [i \in 1..n |-> prices[Len(prices) - n + i]]

HistoryBounded ==
    /\ [](\A b \in Bots :
            /\ Len(mrs[b].loaded) <= Capacity
            /\ Len(mrs[b].priceHistory) <= Capacity
            /\ mrs[b].priceHistory = MostRecent(ArrivedPrices(b), Capacity))
    /\ [][ \A b \in Bots :
              \A e \in priceSub[b].running :
                  (e \notin priceSub'[b].running /\ e.Symbol # Symbol)
                  => /\ mrs'[b] = mrs[b]
                     /\ strategySignals' = strategySignals
                     /\ busEvents'["strategy.signal"] = busEvents["strategy.signal"]
          ]_vars

\* a history preloaded to the capacity has taken two ticks of the configured symbol
\* and seen one of another symbol
WitnessHistoryBounded ==
    \E b \in Bots :
        /\ Len(mrs[b].loaded) = Capacity
        /\ Len(mrs[b].priceHistory) = Capacity
        /\ Len(priceSub[b].handled) = 3
        /\ Len(ArrivedPrices(b)) = Capacity + 2
        /\ mrs[b].priceHistory # mrs[b].loaded

(***************************************************************************)
(* C29: on a tick for the configured symbol with no open trade for the     *)
(* strategy, OnPriceUpdate publishes exactly one BUY MARKET signal when    *)
(* the history has at least bb_period prices, RSI < oversold and current   *)
(* price < lower Bollinger band, and publishes no signal otherwise; it     *)
(* never publishes a SELL (short) entry.                                   *)
(***************************************************************************)
\* the strategy.signal events published in this step
SignalsPublishedNow ==
    SubSeq(strategySignals', Len(strategySignals) + 1, Len(strategySignals'))

\* the callback of bot b returns in this step from an update e of the configured
\* symbol
ConfiguredTickHandled(b, e) ==
    /\ e \in priceSub[b].running
    /\ e \notin priceSub'[b].running
    /\ e.Symbol = Symbol

\* G and L of RSI over the last p intervals of the prices h
GainOver(h, p) ==
    SumSeq([k \in 1..p |-> LET c == h[Len(h) - p + k] - h[Len(h) - p + k - 1]
                           IN  IF c > 0 THEN c ELSE 0])
LossOver(h, p) ==
    SumSeq([k \in 1..p |-> LET c == h[Len(h) - p + k - 1] - h[Len(h) - p + k]
                           IN  IF c > 0 THEN c ELSE 0])

\* RSI(14) < 30: 100 - 100 / (1 + G / L) < 30, that is 100 * G < 30 * (G + L); the
\* RSI is 100 when L = 0
RsiOversold(h) ==
    /\ Len(h) >= 15
    /\ LossOver(h, 14) > 0
    /\ 100 * GainOver(h, 14) < 30 * (GainOver(h, 14) + LossOver(h, 14))

\* price < middle - 2 * sigma over the last 20 prices, with S their sum: S - 20 *
\* price > 0 and (S - 20 * price)^2 > 4 * 400 * sigma^2, where 400 * sigma^2 is
\* the sum of the (20 * p - S)^2 divided by 20
BelowLowerBollinger(h) ==
    LET last == [k \in 1..20 |-> h[Len(h) - 20 + k]]
        S == SumSeq(last)
        price == h[Len(h)]
        dev == SumSeq([k \in 1..20 |-> (20 * last[k] - S) * (20 * last[k] - S)])
    IN  /\ S - 20 * price > 0
        /\ 20 * (S - 20 * price) * (S - 20 * price) > 4 * dev

NoOpenTrade == \A t \in 1..Len(trades) : trades[t].exit_time # NULL

OpenLongTrades ==
    {t \in 1..Len(trades) : /\ trades[t].strategy_id = StrategyID
                            /\ trades[t].exit_time = NULL
                            /\ trades[t].side = "LONG"}

\* current price > SMA(20), the SMA of fewer than 20 prices being zero
PriceAboveSma(h) ==
    IF Len(h) < 20
    THEN h[Len(h)] > 0
    ELSE 20 * h[Len(h)] > SumSeq([k \in 1..20 |-> h[Len(h) - 20 + k]])

\* exactly one SELL MARKET exit signal for the whole quantity of an open trade
OneExitPublished ==
    /\ Len(SignalsPublishedNow) = 1
    /\ SignalsPublishedNow[1].Side = "SELL"
    /\ SignalsPublishedNow[1].Type = "MARKET"
    /\ SignalsPublishedNow[1].Reason = "Price crossed SMA"
    /\ \E t \in OpenLongTrades :
           SignalsPublishedNow[1].Quantity = trades[t].quantity * QuantityScale

Dispatched(o) == exec[o].pc = "dispatch" /\ exec'[o].pc \in {"done", "close"}

TradesWithEntryOrder(o) == {t \in 1..Len(trades) : trades[t].entry_order_id = o}

FilledBuyOpensTrade ==
    /\ [][ \A o \in 1..Len(exec) :
             Dispatched(o) =>
                IF orders'[o].side = "BUY" /\ orders'[o].status = OrderStatusFilled
                THEN /\ Len(trades') = Len(trades) + 1
                     /\ SubSeq(trades', 1, Len(trades)) = trades
                     /\ LET t == trades'[Len(trades')]
                        IN  /\ t.side = "LONG"
                            /\ t.entry_order_id = o
                            /\ {t.entry_price} = orders'[o].average_fill_price
                            /\ t.quantity = orders'[o].quantity
                     /\ busEvents'["trade.opened"] = busEvents["trade.opened"] + 1
                ELSE Len(trades') = Len(trades)
         ]_vars
    /\ [](\A o \in 1..Len(orders) : Cardinality(TradesWithEntryOrder(o)) <= 1)

(***************************************************************************)
(* C32: if the exchange's PlaceOrder returns an error for an order, the    *)
(* order's status is set to FAILED, an order.failed event is published,    *)
(* the exchange is not called again for that order, and no trade is        *)
(* created or closed; if it succeeds, the order takes the status, exchange *)
(* id, filled quantity, average fill price and fees of the response and an *)
(* order.placed event is published.                                        *)
(***************************************************************************)
TradesOfOrder(o) ==
    {t \in 1..Len(trades) : trades[t].entry_order_id = o \/ trades[t].exit_order_id = {o}}

PnlPercentDivisorNonZero ==
    /\ \A t \in 1..Len(trades) :
          trades[t].exit_time = NULL => trades[t].entry_price * trades[t].quantity # 0
    /\ \A o \in 1..Len(exec) : exec[o].pc # "panic"

(***************************************************************************)
(* C34: under fair scheduling and an exchange that fills orders, once an   *)
(* exit signal for an open trade is published (the signal engine's SELL on *)
(* price > SMA, or the risk gate's max-hold closeout), the signal consumer *)
(* accepts it, a SELL order is placed and the trade is eventually closed   *)
(* (exit_time set).                                                        *)
(***************************************************************************)
\* an exit signal has been published while trade t is open
ExitSignalPublished(t) ==
    /\ t \in 1..Len(trades)
    /\ trades[t].exit_time = NULL
    /\ \/ \E i \in 1..Len(strategySignals) : strategySignals[i].Side = "SELL"
       \/ closeSignals # <<>>

ExitSignalClosesTrade ==
    \A t \in 1..(MaxSignals + 1) :
        ExitSignalPublished(t) ~> (t \in 1..Len(trades) /\ trades[t].exit_time # NULL)

(***************************************************************************)
(* C35: the exchange's PlaceOrder is invoked only for an order whose       *)
(* stored status is PENDING at the moment of dispatch: an order that the   *)
(* kill switch has already set to CANCELLED is never sent to the exchange. *)
(***************************************************************************)
DispatchedOnlyWhilePending ==
    [][ \A o \in 1..Len(exec) :
          Dispatched(o) => orders[o].status = OrderStatusPending ]_vars

(***************************************************************************)
(* C36: each trade is closed at most once: after one filled SELL order has *)
(* set a trade's exit_order_id, exit_price, exit_time and pnl, no later or *)
(* concurrent filled SELL order for the same (strategy, symbol) overwrites *)
(* them, and each SELL order is the exit order of at most one trade.       *)
(***************************************************************************)
TradesWithExitOrder(o) == {t \in 1..Len(trades) : trades[t].exit_order_id = {o}}

TradeClosedOnce ==
    /\ [][ \A t \in 1..Len(trades) :
              trades[t].exit_time # NULL => trades'[t] = trades[t] ]_vars
    /\ [](\A o \in 1..Len(orders) : Cardinality(TradesWithExitOrder(o)) <= 1)

(***************************************************************************)
(* C37: PlaceOrder treats a signal as a duplicate only when it is a        *)
(* redelivery of a signal already placed: two distinct signals (different  *)
(* signal ids, emitted for different ticks or after the previous position  *)
(* was closed) each create their own order row, also when they carry the   *)
(* same strategy, symbol, side, quantity and price.                        *)
(***************************************************************************)
\* PlaceOrder of bot b returns in this step because it found the client_order_id
ReturnsExisting(b) == pc[b] = "place_check" /\ pc'[b] = "idle"

DuplicateOnlyOnRedelivery ==
    [][ \A b \in Consumers :
          ReturnsExisting(b) =>
             \E o \in 1..Len(exec) : exec[o].signal.id = cur[b].id ]_vars

(***************************************************************************)
(* C38: ValidateTradeSignal returns ok or reject for every signal without  *)
(* a run-time fault; in particular it never divides by zero for a signal   *)
(* that carries no indicators.price (price read as 0), such as the         *)
(* max-hold close signal, whatever its stop-loss price.                    *)
(***************************************************************************)
\* no callback has ended in the division by a zero entry price
ValidateNeverFaults == \A b \in Consumers : pc[b] # "crashed"

(***************************************************************************)
(* C39: after EnableKillSwitch or DisableKillSwitch returns, with or       *)
(* without an error, the in-process kill-switch flag equals the enabled    *)
(* field of system_config.kill_switch in the store; when EnableKillSwitch  *)
(* fails to persist, no state (flag, record, order statuses) is changed.   *)
(***************************************************************************)
\* EnableKillSwitch called by thread t returns in this step
EnableKillSwitchReturns(t) ==
    pc[t] \in {"ek_persist", "ek_tail"} /\ pc'[t] = frame[t].ret

\* DisableKillSwitch called by the operator returns in this step
DisableKillSwitchReturns == pc[Admin] \in {"enabled", "disabled"} /\ pc'[Admin] # pc[Admin]

FlagMatchesRecordOnReturn ==
    [][ /\ \A t \in Threads :
              EnableKillSwitchReturns(t) =>
                 /\ killSwitch'[frame[t].rm].enabled = system_config'.enabled
                 /\ frame'[t].result = "error" =>
                        /\ killSwitch' = killSwitch
                        /\ system_config' = system_config
                        /\ Statuses(orders') = Statuses(orders)
        /\ \A b \in Consumers :
              DisableKillSwitchReturns =>
                 KillSwitchEnabled(b)' = KillSwitchPersisted(b)' ]_vars

(***************************************************************************)
(* C40: every row ever written to price_data is a snapshot the candle      *)
(* buffer held at a single instant, and so satisfies low <= open <= high   *)
(* and low <= close <= high: the periodic flush never persists a mix of    *)
(* fields read before and after a concurrent tick update.                  *)
(***************************************************************************)
PersistedCandleIsSnapshot ==
    \A i \in 1..Len(price_data) :
        /\ price_data[i].low <= price_data[i].open
        /\ price_data[i].open <= price_data[i].high
        /\ price_data[i].low <= price_data[i].close
        /\ price_data[i].close <= price_data[i].high

====
